---- MODULE Spec2Model ----
(***************************************************************************)
(* A model of the file-backed key/value store of power-eagle-mods:         *)
(*   - JsonFile  (utils/_jsonFile.js): lock sentinel protocol, load/save,  *)
(*     the top-level Proxy that starts a save on mutation, batch mode;     *)
(*   - _traverse.js: getDeep / setDeep / setDefaultDeep / popDeep;         *)
(*   - Config    (the scoped configuration facade): key building, the      *)
(*     direct and the upstream (reference) storage path.                   *)
(*                                                                         *)
(* Three specifications share the module:                                  *)
(*   Spec        several OS processes run save()/load() on one backing     *)
(*               file, one file-system call per step;                      *)
(*   StoreSpec   one process, one JsonFile: the event loop runs the        *)
(*               synchronous segments of its calls one after another;      *)
(*   ConfigSpec  Config objects over the stores' in-memory documents.      *)
(***************************************************************************)
EXTENDS Integers, Sequences, FiniteSets, TLC

\* ------------------------------------------------------------------ bounds
NumProcs == 2
MaxTicks == 3

\* ------------------------------------------------- JsonFile configuration
\* constructor defaults, in the units of the source (ms, ms, s)
LockRetryInterval == 100
LockTimeout == 5000
LockMaxAge == 30

(***************************************************************************)
(* Strings.  A JavaScript string is a sequence of tokens: the characters   *)
(* the code looks at ("/", "{", "}", "&", "=", "@") each are one token,    *)
(* and a maximal run of other characters (a word) is one token.  A word is *)
(* either a decimal numeral or holds no digit.                             *)
(***************************************************************************)
Slash == "/"

\* the numerals the model reads as array indices: Numerals[i + 1] names i
Numerals == <<"0", "1", "2", "3">>

\* String(i) for an index i
NumeralOf(i) == <<Numerals[i + 1]>>

\* the result NaN of parseInt, which is no index
NaN == 0 - 1

\* parseInt(key): the numeral the string starts with, else NaN
ParseInt(key) ==
    IF key # <<>> /\ \E i \in DOMAIN Numerals : Numerals[i] = key[1]
    THEN (CHOOSE i \in DOMAIN Numerals : Numerals[i] = key[1]) - 1
    ELSE NaN

\* the property name under which an array keeps index (String(index))
IndexName(index) == IF index = NaN THEN <<"NaN">> ELSE NumeralOf(index)

\* index >= n and index < n are both false for NaN
Ge(index, n) == index # NaN /\ index >= n
Lt(index, n) == index # NaN /\ index < n

\* str.split(sep): the pieces between the occurrences of the token sep
RECURSIVE SplitOn(_, _)
SplitOn(str, sep) ==
    IF \A i \in DOMAIN str : str[i] # sep THEN <<str>>
    ELSE LET i == CHOOSE j \in DOMAIN str :
                      str[j] = sep /\ \A k \in 1 .. (j - 1) : str[k] # sep
         IN <<SubSeq(str, 1, i - 1)>> \o SplitOn(SubSeq(str, i + 1, Len(str)), sep)

\* path.split('/')
Split(path) == SplitOn(path, Slash)

\* keys.pop() leaves Front(keys) and returns Last(keys)
Front(seq) == SubSeq(seq, 1, Len(seq) - 1)
Last(seq) == seq[Len(seq)]

(***************************************************************************)
(* Values and the heap.  A JavaScript value is undefined, null, a string,  *)
(* or a reference to an object of the heap.  An object of the heap is a    *)
(* plain object or an array: its own properties m (name -> value) and, for *)
(* an array, its length.  JSON text is a tree: JsonStringify turns what a  *)
(* reference reaches into a tree, JsonParse builds fresh objects from one. *)
(***************************************************************************)
Undefined == [t |-> "undefined"]
Null == [t |-> "null"]
Str(s) == [t |-> "string", v |-> s]
Ref(a) == [t |-> "ref", v |-> a]
IsRef(x) == x.t = "ref"

NoProps == [k \in {} |-> Undefined]
\* {}
EmptyObject == [t |-> "object", len |-> 0, m |-> NoProps]
\* []
EmptyArray == [t |-> "array", len |-> 0, m |-> NoProps]

\* Array.isArray(x)
IsArray(h, x) == IsRef(x) /\ h[x.v].t = "array"
\* typeof x === 'object' (true of null)
IsObjectType(x) == x.t \in {"ref", "null"}

\* obj[name]
GetProp(node, name) == IF name \in DOMAIN node.m THEN node.m[name] ELSE Undefined
Put(m, name, value) == [k \in (DOMAIN m) \cup {name} |-> IF k = name THEN value ELSE m[k]]
Remove(m, name) == [k \in (DOMAIN m) \ {name} |-> m[k]]

\* obj[name] = value; on an array an index at or past the end moves length
SetProp(node, name, value) ==
    LET i == ParseInt(name)
    IN [node EXCEPT !.m = Put(node.m, name, value),
                    !.len = IF node.t = "array" /\ name = IndexName(i) /\ Ge(i, node.len)
                            THEN i + 1 ELSE node.len]

\* delete obj[name]
DeleteProp(node, name) == [node EXCEPT !.m = Remove(node.m, name)]

\* a new object on the heap: its address is the next free one
Alloc(h, node) == Append(h, node)
NewAddr(h) == Len(h) + 1

\* arr.push(...Array(count).fill(value))
RECURSIVE PushFill(_, _, _)
PushFill(node, count, value) ==
    IF count <= 0 THEN node
    ELSE PushFill(SetProp(node, NumeralOf(node.len), value), count - 1, value)

\* arr.splice(index, 1): the later elements move down by one
Splice(node, index) ==
    LET kept == [k \in {n \in DOMAIN node.m : \A i \in 0 .. (node.len - 1) : n # NumeralOf(i)}
                    |-> node.m[k]]
        moved == [k \in {NumeralOf(i) : i \in {j \in 0 .. (node.len - 2) :
                             NumeralOf(IF j < index THEN j ELSE j + 1) \in DOMAIN node.m}}
                    |-> LET j == ParseInt(k)
                        IN node.m[NumeralOf(IF j < index THEN j ELSE j + 1)]]
    IN [node EXCEPT !.len = node.len - 1,
                    !.m = [k \in (DOMAIN kept) \cup (DOMAIN moved)
                              |-> IF k \in DOMAIN moved THEN moved[k] ELSE kept[k]]]

\* Garbage collection: the objects no reference from `roots` reaches are
\* dropped and the others keep their order; a program cannot observe it.
RefsOf(node) == {node.m[k].v : k \in {n \in DOMAIN node.m : IsRef(node.m[n])}}

RECURSIVE Reach(_, _)
Reach(h, seen) ==
    LET next == seen \cup UNION {RefsOf(h[a]) : a \in seen}
    IN IF next = seen THEN seen ELSE Reach(h, next)

Collect(h, roots) ==
    LET live == Reach(h, roots)
        NewAddrOf(a) == Cardinality({b \in live : b <= a})
        Moved(x) == IF IsRef(x) THEN Ref(NewAddrOf(x.v)) ELSE x
    IN [i \in 1 .. Cardinality(live) |->
           LET node == h[CHOOSE a \in live : NewAddrOf(a) = i]
           IN [node EXCEPT !.m = [k \in DOMAIN node.m |-> Moved(node.m[k])]]]

(***************************************************************************)
(* _traverse.js.  Every operator takes the heap h and returns the heap     *)
(* afterwards with its result.  `proxied` says that obj is JsonFile's      *)
(* Proxy (this.data): an assignment to, or a delete of, a property of obj  *)
(* itself then runs the Proxy's trap, and `traps` counts those runs.  The  *)
(* objects below obj are reached through the Proxy's default get and are   *)
(* not proxied.                                                            *)
(***************************************************************************)
Thrown(h, traps) == [h |-> h, value |-> Undefined, threw |-> TRUE, traps |-> traps]
Returned(h, value, traps) == [h |-> h, value |-> value, threw |-> FALSE, traps |-> traps]

\* _traverse(obj, keys, createMissing)
RECURSIVE Traverse(_, _, _, _, _, _)
Traverse(h, curr, keys, createMissing, proxied, traps) ==
    IF keys = <<>> THEN Returned(h, curr, traps)
    ELSE IF curr = Null \/ curr = Undefined THEN Thrown(h, traps)
    ELSE IF IsArray(h, curr) THEN
        LET index == ParseInt(Head(keys))
            node == h[curr.v]
            grow == createMissing /\ Ge(index, node.len)
            count == index - node.len + 1
            \* Array(count).fill({}): one new object, count references to it
            h1 == IF grow
                  THEN [Alloc(h, EmptyObject) EXCEPT
                           ![curr.v] = PushFill(node, count, Ref(NewAddr(h)))]
                  ELSE h
            \* push through the Proxy: one set per element and one of length
            t1 == IF grow /\ proxied THEN traps + count + 1 ELSE traps
        IN Traverse(h1, GetProp(h1[curr.v], IndexName(index)), Tail(keys),
                    createMissing, FALSE, t1)
    ELSE IF IsRef(curr) THEN
        LET key == Head(keys)
            node == h[curr.v]
            missing == createMissing /\ key \notin DOMAIN node.m
            h1 == IF missing
                  THEN [Alloc(h, EmptyObject) EXCEPT
                           ![curr.v] = SetProp(node, key, Ref(NewAddr(h)))]
                  ELSE h
            t1 == IF missing /\ proxied THEN traps + 1 ELSE traps
        IN Traverse(h1, GetProp(h1[curr.v], key), Tail(keys), createMissing, FALSE, t1)
    ELSE Thrown(h, traps)

\* getDeep(obj, path)
GetDeep(h, obj, path) == Traverse(h, obj, Split(path), FALSE, FALSE, 0)

\* the array branch of setDeep / setDefaultDeep: pad with null up to index
PadNull(node, index) ==
    IF Ge(index, node.len) THEN PushFill(node, index - node.len + 1, Null) ELSE node
PadTraps(node, index) == IF Ge(index, node.len) THEN index - node.len + 2 ELSE 0

\* setDeep(obj, path, value)
SetDeep(h, obj, path, value, proxied) ==
    LET keys == Split(path)
        lastKey == Last(keys)
        r == Traverse(h, obj, Front(keys), TRUE, proxied, 0)
        target == r.value
        \* target is obj itself, the Proxy
        direct == proxied /\ Len(keys) = 1
    IN IF r.threw THEN Thrown(r.h, r.traps)
       ELSE IF IsArray(r.h, target) THEN
           LET index == ParseInt(lastKey)
               node == r.h[target.v]
               done == SetProp(PadNull(node, index), IndexName(index), value)
           IN Returned([r.h EXCEPT ![target.v] = done], Undefined,
                       r.traps + (IF direct THEN PadTraps(node, index) + 1 ELSE 0))
       ELSE IF IsObjectType(target) THEN
           \* null[lastKey] = value is a TypeError
           IF target = Null THEN Thrown(r.h, r.traps)
           ELSE Returned([r.h EXCEPT ![target.v] = SetProp(@, lastKey, value)], Undefined,
                         r.traps + (IF direct THEN 1 ELSE 0))
       ELSE Thrown(r.h, r.traps)

\* setDefaultDeep(obj, path, defaultValue)
SetDefaultDeep(h, obj, path, defaultValue, proxied) ==
    LET keys == Split(path)
        lastKey == Last(keys)
        r == Traverse(h, obj, Front(keys), TRUE, proxied, 0)
        target == r.value
        direct == proxied /\ Len(keys) = 1
    IN IF r.threw THEN Thrown(r.h, r.traps)
       ELSE IF IsArray(r.h, target) THEN
           LET index == ParseInt(lastKey)
               node == r.h[target.v]
               padded == PadNull(node, index)
               absent == GetProp(padded, IndexName(index)) = Undefined
               done == IF absent THEN SetProp(padded, IndexName(index), defaultValue)
                       ELSE padded
           IN Returned([r.h EXCEPT ![target.v] = done], GetProp(done, IndexName(index)),
                       r.traps + (IF direct
                                  THEN PadTraps(node, index) + (IF absent THEN 1 ELSE 0)
                                  ELSE 0))
       ELSE IF IsObjectType(target) THEN
           \* lastKey in null is a TypeError
           IF target = Null THEN Thrown(r.h, r.traps)
           ELSE LET node == r.h[target.v]
                    absent == lastKey \notin DOMAIN node.m
                    done == IF absent THEN SetProp(node, lastKey, defaultValue) ELSE node
                IN Returned([r.h EXCEPT ![target.v] = done], GetProp(done, lastKey),
                            r.traps + (IF direct /\ absent THEN 1 ELSE 0))
       ELSE Thrown(r.h, r.traps)

\* popDeep(obj, path, defaultValue)
PopDeep(h, obj, path, defaultValue, proxied) ==
    LET keys == Split(path)
        lastKey == Last(keys)
        r == Traverse(h, obj, Front(keys), FALSE, proxied, 0)
        target == r.value
        direct == proxied /\ Len(keys) = 1
    IN IF r.threw THEN Thrown(r.h, r.traps)
       ELSE IF IsArray(r.h, target) THEN
           LET index == ParseInt(lastKey)
               node == r.h[target.v]
               inside == Lt(index, node.len)
           IN Returned(IF inside THEN [r.h EXCEPT ![target.v] = Splice(node, index)] ELSE r.h,
                       IF inside THEN GetProp(node, IndexName(index)) ELSE defaultValue,
                       \* splice through the Proxy: a set per moved element, the
                       \* delete of the last one and the set of length
                       r.traps + (IF direct /\ inside THEN node.len - index + 1 ELSE 0))
       ELSE IF IsObjectType(target) THEN
           IF target = Null THEN Thrown(r.h, r.traps)
           ELSE LET node == r.h[target.v]
                IN Returned([r.h EXCEPT ![target.v] = DeleteProp(node, lastKey)],
                            IF lastKey \in DOMAIN node.m THEN node.m[lastKey] ELSE defaultValue,
                            r.traps + (IF direct THEN 1 ELSE 0))
       ELSE Thrown(r.h, r.traps)

(***************************************************************************)
(* JSON.  A tree is null, a string, [t |-> "object", m |-> name -> tree]   *)
(* or [t |-> "array", v |-> sequence of trees].                            *)
(***************************************************************************)
EmptyTree == [t |-> "object", m |-> NoProps]

\* JSON.stringify: own properties whose value is not undefined; of an array
\* the elements 0 .. length-1, null where there is none
RECURSIVE JsonStringify(_, _)
JsonStringify(h, x) ==
    IF ~IsRef(x) THEN x
    ELSE LET node == h[x.v]
         IN IF node.t = "array"
            THEN [t |-> "array",
                  v |-> [i \in 1 .. node.len |->
                           LET e == GetProp(node, NumeralOf(i - 1))
                           IN IF e = Undefined THEN Null ELSE JsonStringify(h, e)]]
            ELSE [t |-> "object",
                  m |-> [k \in {n \in DOMAIN node.m : node.m[n] # Undefined}
                           |-> JsonStringify(h, node.m[k])]]

\* JSON.parse: a fresh object for every object and array of the tree
RECURSIVE JsonParse(_, _)
RECURSIVE ParseProps(_, _, _, _)
ParseProps(h, addr, names, valueOf) ==
    IF names = {} THEN h
    ELSE LET n == CHOOSE k \in names : TRUE
             r == JsonParse(h, valueOf[n])
         IN ParseProps([r.h EXCEPT ![addr] = SetProp(@, n, r.value)],
                       addr, names \ {n}, valueOf)

JsonParse(h, tree) ==
    IF tree.t = "object"
    THEN [h |-> ParseProps(Alloc(h, EmptyObject), NewAddr(h), DOMAIN tree.m, tree.m),
          value |-> Ref(NewAddr(h))]
    ELSE IF tree.t = "array"
    THEN [h |-> ParseProps(Alloc(h, EmptyArray), NewAddr(h),
                           {NumeralOf(i - 1) : i \in DOMAIN tree.v},
                           [k \in {NumeralOf(i - 1) : i \in DOMAIN tree.v}
                               |-> tree.v[ParseInt(k) + 1]]),
          value |-> Ref(NewAddr(h))]
    ELSE [h |-> h, value |-> tree]

VARIABLES
    \* the file system and the clock
    clock,        \* Date.now(), ms
    ticks,        \* number of clock advances so far (bounds the run)
    lockFile,     \* the sentinel <file>.lock
    fileContent,  \* the backing file: Absent, Corrupt or a JSON tree
    fileMtime,    \* its modification time
    \* JsonFile, per process
    lockHolder,   \* _lockHolder
    task,         \* Spec: the save()/load() call the process is running
    \* JsonFile of the process StoreSpec follows
    heap,         \* the objects of the process
    data,         \* the target of the Proxy this.data
    rawData,      \* this._data: the Proxy's target, or what loadSync parsed later
    lastModified, \* _lastModified
    batchMode,    \* _batchMode
    queuedSave,   \* _queuedSave
    calls,        \* the save()/load() calls in flight
    micro,        \* the microtask queue: calls whose await has resolved
    \* what the claims observe
    ops,          \* number of API calls of the client so far (bounds the run)
    lastSet,      \* the last set(key, value) that returned, if nothing undid it
    access,       \* the last access of save()/load() to the backing file
    dirty,        \* the document was changed since beginBatch()
    \* Config and the JsonFile instances behind it (ConfigSpec, UpstreamSpec)
    mem,          \* the objects of the process
    instances,    \* JsonFile._instances: file -> the instance, if any
    disk,         \* the backing files: file -> Absent, Corrupt or a JSON tree
    cfg,          \* the Config instance the client code uses
    refs,         \* number of reference ids generated so far
    steps,        \* number of Config calls so far (bounds the run)
    prev,         \* the Config call before the last one
    last,         \* the last Config call and its outcome
    host          \* the host application: plugin, library and selection

lockVars == <<clock, ticks, lockFile, lockHolder, task>>
fileVars == <<fileContent, fileMtime>>
storeVars == <<heap, data, rawData, lastModified, batchMode, queuedSave, calls, micro>>
obsVars == <<ops, lastSet, access, dirty>>
configVars == <<mem, instances, disk, cfg, refs, steps, prev, last, host>>

vars == <<lockVars, fileVars, storeVars, obsVars, configVars>>

Procs == 1 .. NumProcs

\* process.pid of process p
Pid(p) == p

\* _lockHolder = null
NoHolder == 0

\* the sentinel is absent
NoLock == [exists |-> FALSE, ctime |-> 0, creator |-> 0]

\* the pid of a process that died holding the sentinel (no live process has it)
Abandoned == NumProcs + 1

\* how far the clock may advance in one step: one retry interval, just past
\* the lock timeout, just past the maximal lock age
Durations == {LockRetryInterval, LockTimeout + 1, LockMaxAge * 1000 + 1}

\* a call: where it stands, its start time and timer, how many sentinels
\* its #acquireLock has unlinked, in all and since it last (re)started, the
\* modification time its writeFileSync gave the file and the one its
\* statSync read into _lastModified
IdleTask == [pc |-> "idle", kind |-> "none", start |-> 0, wake |-> 0, err |-> "none",
             unlinks |-> 0, passUnlinks |-> 0, wrote |-> 0, recorded |-> 0]

\* fs.writeFileSync(this._lockPath, '', { flag: 'wx' }) when the file is absent
CreateLock(pid, now) == [exists |-> TRUE, ctime |-> now, creator |-> pid]

\* lockAge > this.lockMaxAge * 1000
IsStale(lock, now) == now - lock.ctime > LockMaxAge * 1000

\* Date.now() - start > this._lockTimeout
TimedOut(t, now) == now - t.start > LockTimeout

\* unlinkSync of the stale sentinel without the break: the loop goes on
BreakStaleAndLoop(t, holder, lock, now, pid) ==
    [t |-> [t EXCEPT !.pc = "exists", !.unlinks = @ + 1, !.passUnlinks = @ + 1],
     holder |-> holder, lock |-> NoLock]

\* fs.unlinkSync(this._lockPath); break
BreakStale(t, holder, lock, now, pid) ==
    [t |-> [t EXCEPT !.pc = "create", !.unlinks = @ + 1, !.passUnlinks = @ + 1],
     holder |-> holder, lock |-> NoLock]

\* a timeout that records the caller as holder and leaves a sentinel
ThrowTimeoutHolding(t, holder, lock, now, pid) ==
    [t |-> [t EXCEPT !.pc = "failed", !.err = "timeout"],
     holder |-> pid, lock |-> CreateLock(pid, now)]

\* throw new Error('Lock acquisition timeout'): nothing else changes
ThrowTimeout(t, holder, lock, now, pid) ==
    [t |-> [t EXCEPT !.pc = "failed", !.err = "timeout"], holder |-> holder, lock |-> lock]

(***************************************************************************)
(* One step of JsonFile.#acquireLock for the call t of process pid: the    *)
(* code up to and including its next file-system call or suspension.       *)
(* Result: the call, the holder field and the sentinel afterwards.         *)
(*   enter      line 112-114   holder test, start = Date.now()              *)
(*   exists     line 115       while (fs.existsSync(lockPath))              *)
(*   stat       line 116-119   statSync, lockAge, the staleness test        *)
(*   unlink     line 120-121   unlinkSync of the stale sentinel, break      *)
(*   immediate  line 124-129   resumed after setImmediate: timeout test     *)
(*   sleep      line 130-132   resumed after setTimeout(lockRetryInterval)  *)
(*   create     line 135-141   writeFileSync 'wx'; EEXIST restarts          *)
(***************************************************************************)
AcquireStep(t, holder, lock, now, pid) ==
    CASE t.pc = "enter" ->
            IF holder = pid
            THEN [t |-> [t EXCEPT !.pc = "acquired"], holder |-> holder, lock |-> lock]
            ELSE [t |-> [t EXCEPT !.pc = "exists", !.start = now],
                  holder |-> holder, lock |-> lock]
      [] t.pc = "exists" ->
            [t |-> [t EXCEPT !.pc = IF lock.exists THEN "stat" ELSE "create"],
             holder |-> holder, lock |-> lock]
      [] t.pc = "stat" ->
            IF ~lock.exists
            THEN [t |-> [t EXCEPT !.pc = "failed", !.err = "ENOENT"],
                  holder |-> holder, lock |-> lock]
            ELSE [t |-> [t EXCEPT !.pc = IF IsStale(lock, now) THEN "unlink" ELSE "immediate"],
                  holder |-> holder, lock |-> lock]
      [] t.pc = "unlink" ->
            IF ~lock.exists
            THEN [t |-> [t EXCEPT !.pc = "failed", !.err = "ENOENT"],
                  holder |-> holder, lock |-> lock]
            ELSE BreakStale(t, holder, lock, now, pid)
      [] t.pc = "immediate" ->
            IF TimedOut(t, now)
            THEN ThrowTimeout(t, holder, lock, now, pid)
            ELSE [t |-> [t EXCEPT !.pc = "sleep", !.wake = now + LockRetryInterval],
                  holder |-> holder, lock |-> lock]
      [] t.pc = "sleep" ->
            [t |-> [t EXCEPT !.pc = "exists"], holder |-> holder, lock |-> lock]
      [] t.pc = "create" ->
            IF lock.exists
            THEN [t |-> [t EXCEPT !.pc = "enter", !.passUnlinks = 0],
                  holder |-> holder, lock |-> lock]
            ELSE [t |-> [t EXCEPT !.pc = "acquired"],
                  holder |-> pid, lock |-> CreateLock(pid, now)]

AcquirePcs == {"enter", "exists", "stat", "unlink", "immediate", "sleep", "create"}

\* a call waiting for its timer cannot be resumed before the timer is due
Runnable(t, now) == t.pc = "sleep" => now >= t.wake

(***************************************************************************)
(* JsonFile.#releaseLock: unlinkSync and holder = null when this process   *)
(* is the recorded holder; an unlink error is caught and logged, and the   *)
(* holder field then keeps its value.                                      *)
(***************************************************************************)
ReleaseLock(holder, lock, pid) ==
    IF holder # pid THEN [holder |-> holder, lock |-> lock]
    ELSE IF ~lock.exists THEN [holder |-> holder, lock |-> lock]
    ELSE [holder |-> NoHolder, lock |-> NoLock]

\* ------------------------------------------------------------ Spec: actions

\* a process calls save() or load() on its JsonFile
StartOp(p) ==
    /\ task[p].pc = "idle"
    /\ \E k \in {"save", "load"} :
          task' = [task EXCEPT ![p] = [IdleTask EXCEPT !.pc = "enter", !.kind = k]]
    /\ UNCHANGED <<clock, ticks, lockFile, lockHolder>>
    /\ UNCHANGED <<fileVars, storeVars, obsVars, configVars>>

\* the next step of #acquireLock
Acquire(p) ==
    /\ task[p].pc \in AcquirePcs
    /\ Runnable(task[p], clock)
    /\ LET r == AcquireStep(task[p], lockHolder[p], lockFile, clock, Pid(p))
       IN /\ task' = [task EXCEPT ![p] = r.t]
          /\ lockHolder' = [lockHolder EXCEPT ![p] = r.holder]
          /\ lockFile' = r.lock
    /\ UNCHANGED <<clock, ticks>>
    /\ UNCHANGED <<fileVars, storeVars, obsVars, configVars>>

\* save(): writeFileSync + statSync of the backing file; load(): loadSync
FileAccess(p) ==
    /\ task[p].pc = "acquired"
    /\ task' = [task EXCEPT ![p].pc = "release"]
    /\ UNCHANGED <<clock, ticks, lockFile, lockHolder>>
    /\ UNCHANGED <<fileVars, storeVars, obsVars, configVars>>

\* finally { this.#releaseLock() }
Release(p) ==
    /\ task[p].pc = "release"
    /\ LET r == ReleaseLock(lockHolder[p], lockFile, Pid(p))
       IN /\ lockHolder' = [lockHolder EXCEPT ![p] = r.holder]
          /\ lockFile' = r.lock
    /\ task' = [task EXCEPT ![p] = IdleTask]
    /\ UNCHANGED <<clock, ticks>>
    /\ UNCHANGED <<fileVars, storeVars, obsVars, configVars>>

\* the rejected call is over (its error went to the caller)
Fail(p) ==
    /\ task[p].pc = "failed"
    /\ task' = [task EXCEPT ![p] = IdleTask]
    /\ UNCHANGED <<clock, ticks, lockFile, lockHolder>>
    /\ UNCHANGED <<fileVars, storeVars, obsVars, configVars>>

\* time passes
Tick ==
    /\ ticks < MaxTicks
    /\ \E d \in Durations : clock' = clock + d
    /\ ticks' = ticks + 1
    /\ UNCHANGED <<lockFile, lockHolder, task>>
    /\ UNCHANGED <<fileVars, storeVars, obsVars, configVars>>

(***************************************************************************)
(* StoreSpec: one process and its JsonFile.  The process runs one          *)
(* synchronous segment at a time: a call of the API by the client code, a  *)
(* continuation from the microtask queue, or a timer / watcher callback    *)
(* once the microtask queue is empty.  Another cooperating process may     *)
(* take the sentinel, write the file and release the sentinel.             *)
(***************************************************************************)
MaxCalls == 2
MaxOps == 3
StoreMaxTicks == 1

Self == 1
Other == Self + 1
CallIds == 1 .. MaxCalls

\* the backing file does not exist / does not parse
Absent == [t |-> "absent"]
Corrupt == [t |-> "corrupt"]
Parses(file) == file.t \in {"object", "array", "null", "string"}

Word(w) == <<w>>
ThemeKey == Word("theme")
SettingsKey == Word("settings")
SettingsThemeKey == <<"settings", Slash, "theme">>

\* the keys and values the client code uses, the files it may find
StoreKeys == {ThemeKey, SettingsKey, SettingsThemeKey}
StoreValues == {Str("dark"), Str("light")}
SettingsTree == [t |-> "object",
                 m |-> [k \in {SettingsKey} |->
                          [t |-> "object", m |-> [j \in {ThemeKey} |-> Str("light")]]]]
InitialFiles == {Absent, SettingsTree}
\* what the other process writes
OtherFiles == {EmptyTree, Corrupt}

NoSet == [key |-> <<>>, value |-> Undefined]
NoAccess == [kind |-> "none", owned |-> TRUE]

\* the methods class JsonFile defines; calling any other name on an
\* instance is a TypeError (... is not a function)
JsonFileMethods == {"loadSync", "load", "save", "beginBatch", "endBatch",
                    "get", "set", "setDefault", "pop", "close"}

\* loadSync() without the reset of its catch block: a document stays
LoadSyncStale(file, mtime, before) ==
    IF Parses(file) THEN [tree |-> file, lastModified |-> mtime]
    ELSE [tree |-> SettingsTree, lastModified |-> before]

\* loadSync(): what this._data and _lastModified become
LoadSync(file, mtime, before) ==
    IF Parses(file) THEN [tree |-> file, lastModified |-> mtime]
    ELSE [tree |-> EmptyTree, lastModified |-> before]

\* new JsonFile(filename) in a fresh process: loadSync, then the Proxy
\* around this._data
Construct(file, mtime) ==
    LET l == LoadSync(file, mtime, 0)
        r == JsonParse(<<>>, l.tree)
    IN [heap |-> r.h, data |-> r.value, lastModified |-> l.lastModified]

\* JsonFile.get(key, defaultValue = null)
JsonFileGet(h, obj, key, defaultValue) ==
    LET r == GetDeep(h, obj, key)
    IN IF r.threw THEN defaultValue ELSE r.value

\* JsonFile.set / setDefault / pop: this.data is the Proxy
JsonFileSet(h, obj, key, value) == SetDeep(h, obj, key, value, TRUE)
JsonFileSetDefault(h, obj, key, value) == SetDefaultDeep(h, obj, key, value, TRUE)
JsonFilePop(h, obj, key, defaultValue) == PopDeep(h, obj, key, defaultValue, TRUE)

\* the program points of #acquireLock that run on without suspension
SyncPcs == {"enter", "exists", "stat", "unlink", "create"}

\* a call runs until it suspends (await) or ends
RECURSIVE RunSync(_, _, _, _, _)
RunSync(t, holder, lock, now, pid) ==
    IF t.pc \in SyncPcs
    THEN LET r == AcquireStep(t, holder, lock, now, pid)
         IN RunSync(r.t, r.holder, r.lock, now, pid)
    ELSE [t |-> t, holder |-> holder, lock |-> lock]

FreeCalls(cs) == {i \in CallIds : cs[i].pc = "idle"}
InFlight(cs) == {i \in CallIds : cs[i].pc \notin {"idle", "failed"}}

\* the state a synchronous segment works on
Segment == [calls |-> calls, micro |-> micro, holder |-> lockHolder[Self],
            lock |-> lockFile, queued |-> queuedSave]

\* a call of save() or load(): `await this.#acquireLock()` runs
\* #acquireLock up to its first suspension; when it returned at once the
\* continuation of the await goes to the microtask queue
StartCall(st, kind, now) ==
    LET id == CHOOSE i \in FreeCalls(st.calls) : \A j \in FreeCalls(st.calls) : i <= j
        r == RunSync([IdleTask EXCEPT !.pc = "enter", !.kind = kind],
                     st.holder, st.lock, now, Pid(Self))
    IN [st EXCEPT !.calls = [st.calls EXCEPT ![id] = r.t],
                  !.micro = IF r.t.pc = "acquired" THEN Append(st.micro, id) ELSE st.micro,
                  !.holder = r.holder,
                  !.lock = r.lock]

\* save(): nothing in batch mode
Save(st, batch, now) == IF batch THEN st ELSE StartCall(st, "save", now)

\* the Proxy's set / deleteProperty trap, after target[prop] = value
ProxyTrap(st, batch, now) ==
    IF ~batch THEN Save(st, batch, now) ELSE [st EXCEPT !.queued = TRUE]

RECURSIVE ProxyTraps(_, _, _, _)
ProxyTraps(st, n, batch, now) ==
    IF n = 0 THEN st ELSE ProxyTraps(ProxyTrap(st, batch, now), n - 1, batch, now)

\* the calls a segment with n trap runs may start fit the model's bound
Fits(n) == batchMode \/ n <= Cardinality(FreeCalls(calls))

\* the call changed the document this.data serializes to
Changed(h) == JsonStringify(h, data) # JsonStringify(heap, data)

\* one more API call of the client
ClientCall ==
    /\ ops < MaxOps
    /\ ops' = ops + 1

Commit(st) ==
    /\ calls' = st.calls
    /\ micro' = st.micro
    /\ lockHolder' = [lockHolder EXCEPT ![Self] = st.holder]
    /\ lockFile' = st.lock
    /\ queuedSave' = st.queued

\* the client calls set(key, value)
StoreSet(key, value) ==
    LET r == JsonFileSet(heap, data, key, value)
    IN /\ ClientCall
       /\ Fits(r.traps)
       /\ heap' = Collect(r.h, {data.v})
       /\ Commit(ProxyTraps(Segment, r.traps, batchMode, clock))
       /\ lastSet' = IF r.threw \/ batchMode THEN NoSet ELSE [key |-> key, value |-> value]
       /\ dirty' = (dirty \/ (batchMode /\ Changed(r.h)))
       /\ UNCHANGED <<clock, ticks, task, fileVars, data, rawData, lastModified,
                      batchMode, access, configVars>>

\* the client calls setDefault(key, value)
StoreSetDefault(key, value) ==
    LET r == JsonFileSetDefault(heap, data, key, value)
    IN /\ ClientCall
       /\ Fits(r.traps)
       /\ heap' = Collect(r.h, {data.v})
       /\ Commit(ProxyTraps(Segment, r.traps, batchMode, clock))
       /\ lastSet' = NoSet
       /\ dirty' = (dirty \/ (batchMode /\ Changed(r.h)))
       /\ UNCHANGED <<clock, ticks, task, fileVars, data, rawData, lastModified,
                      batchMode, access, configVars>>

\* the client calls pop(key)
StorePop(key) ==
    LET r == JsonFilePop(heap, data, key, Null)
    IN /\ ClientCall
       /\ Fits(r.traps)
       /\ heap' = Collect(r.h, {data.v})
       /\ Commit(ProxyTraps(Segment, r.traps, batchMode, clock))
       /\ lastSet' = NoSet
       /\ dirty' = (dirty \/ (batchMode /\ Changed(r.h)))
       /\ UNCHANGED <<clock, ticks, task, fileVars, data, rawData, lastModified,
                      batchMode, access, configVars>>

\* the client calls save()
StoreSave ==
    /\ ClientCall
    /\ Fits(1)
    /\ Commit(Save(Segment, batchMode, clock))
    /\ UNCHANGED <<clock, ticks, task, fileVars, heap, data, rawData, lastModified,
                   batchMode, lastSet, access, dirty, configVars>>

\* beginBatch()
BeginBatch ==
    /\ ClientCall
    /\ batchMode' = TRUE
    /\ queuedSave' = FALSE
    /\ lastSet' = NoSet
    /\ dirty' = FALSE
    /\ UNCHANGED <<lockVars, fileVars, heap, data, rawData, lastModified, calls, micro,
                   access, configVars>>

\* endBatch()
EndBatch ==
    /\ ClientCall
    /\ queuedSave => FreeCalls(calls) # {}
    /\ batchMode' = FALSE
    /\ LET st == IF queuedSave THEN Save(Segment, FALSE, clock) ELSE Segment
       IN Commit([st EXCEPT !.queued = FALSE])
    /\ dirty' = FALSE
    /\ UNCHANGED <<clock, ticks, task, fileVars, heap, data, rawData, lastModified,
                   lastSet, access, configVars>>

\* the watcher's interval callback: statSync, and load() when the file is
\* newer than _lastModified
WatcherTick ==
    /\ micro = <<>>
    /\ fileContent # Absent
    /\ fileMtime > lastModified
    /\ FreeCalls(calls) # {}
    /\ Commit(StartCall(Segment, "load", clock))
    /\ UNCHANGED <<clock, ticks, task, fileVars, heap, data, rawData, lastModified,
                   batchMode, obsVars, configVars>>

Owned == lockFile.exists /\ lockFile.creator = Pid(Self)

\* the continuation of `await this.#acquireLock()` in save(): write the
\* file, record its mtime, release
ResumeSave ==
    /\ micro # <<>>
    /\ calls[Head(micro)].kind = "save"
    /\ fileContent' = JsonStringify(heap, data)
    /\ fileMtime' = clock
    /\ lastModified' = clock
    /\ access' = [kind |-> "write", owned |-> Owned]
    /\ LET r == ReleaseLock(lockHolder[Self], lockFile, Pid(Self))
       IN /\ lockHolder' = [lockHolder EXCEPT ![Self] = r.holder]
          /\ lockFile' = r.lock
    /\ calls' = [calls EXCEPT ![Head(micro)] = IdleTask]
    /\ micro' = Tail(micro)
    /\ UNCHANGED <<clock, ticks, task, heap, data, rawData, batchMode, queuedSave, ops, lastSet, dirty, configVars>>

\* the continuation of `await this.#acquireLock()` in load(): loadSync,
\* release
ResumeLoad ==
    /\ micro # <<>>
    /\ calls[Head(micro)].kind = "load"
    /\ LET l == LoadSync(fileContent, fileMtime, lastModified)
       IN /\ rawData' = [proxied |-> FALSE, tree |-> l.tree]
          /\ lastModified' = l.lastModified
    /\ access' = [kind |-> "read", owned |-> Owned]
    /\ LET r == ReleaseLock(lockHolder[Self], lockFile, Pid(Self))
       IN /\ lockHolder' = [lockHolder EXCEPT ![Self] = r.holder]
          /\ lockFile' = r.lock
    /\ calls' = [calls EXCEPT ![Head(micro)] = IdleTask]
    /\ micro' = Tail(micro)
    /\ UNCHANGED <<clock, ticks, task, fileVars, heap, data, batchMode, queuedSave, ops, lastSet, dirty, configVars>>

\* a setImmediate or setTimeout callback of #acquireLock resumes a call
ResumeTimer(id) ==
    /\ micro = <<>>
    /\ calls[id].pc \in {"immediate", "sleep"}
    /\ Runnable(calls[id], clock)
    /\ LET a == AcquireStep(calls[id], lockHolder[Self], lockFile, clock, Pid(Self))
           r == RunSync(a.t, a.holder, a.lock, clock, Pid(Self))
       IN /\ calls' = [calls EXCEPT ![id] = r.t]
          /\ micro' = IF r.t.pc = "acquired" THEN Append(micro, id) ELSE micro
          /\ lockHolder' = [lockHolder EXCEPT ![Self] = r.holder]
          /\ lockFile' = r.lock
    /\ UNCHANGED <<clock, ticks, task, fileVars, heap, data, rawData, lastModified,
                   batchMode, queuedSave, obsVars, configVars>>

\* a call whose #acquireLock threw is over: its promise is rejected
Settle(id) ==
    /\ calls[id].pc = "failed"
    /\ calls' = [calls EXCEPT ![id] = IdleTask]
    /\ lastSet' = NoSet
    /\ UNCHANGED <<lockVars, fileVars, heap, data, rawData, lastModified, batchMode,
                   queuedSave, micro, ops, access, dirty, configVars>>

\* the process ends with no call in flight and a new one constructs the
\* JsonFile over the same file
Restart ==
    /\ \A i \in CallIds : calls[i].pc = "idle"
    /\ LET c == Construct(fileContent, fileMtime)
       IN /\ heap' = c.heap
          /\ data' = c.data
          /\ lastModified' = c.lastModified
    /\ rawData' = [proxied |-> TRUE, tree |-> EmptyTree]
    /\ lockHolder' = [lockHolder EXCEPT ![Self] = NoHolder]
    /\ batchMode' = FALSE
    /\ queuedSave' = FALSE
    /\ dirty' = FALSE
    /\ UNCHANGED <<clock, ticks, lockFile, task, fileVars, calls, micro, ops, lastSet, access,
                   configVars>>

\* the other process takes the sentinel
OtherLocks ==
    /\ ~lockFile.exists
    /\ lockFile' = CreateLock(Pid(Other), clock)
    /\ UNCHANGED <<clock, ticks, lockHolder, task, fileVars, storeVars, obsVars, configVars>>

\* the other process, holding the sentinel, writes the file
OtherWrites ==
    /\ lockFile.exists /\ lockFile.creator = Pid(Other)
    /\ \E f \in OtherFiles : fileContent' = f
    /\ fileMtime' = clock
    /\ lastSet' = NoSet
    /\ UNCHANGED <<lockVars, storeVars, ops, access, dirty, configVars>>

\* the other process releases the sentinel
OtherUnlocks ==
    /\ lockFile.exists /\ lockFile.creator = Pid(Other)
    /\ lockFile' = NoLock
    /\ UNCHANGED <<clock, ticks, lockHolder, task, fileVars, storeVars, obsVars, configVars>>

\* time passes
StoreTick ==
    /\ ticks < StoreMaxTicks
    /\ \E d \in Durations : clock' = clock + d
    /\ ticks' = ticks + 1
    /\ UNCHANGED <<lockFile, lockHolder, task, fileVars, storeVars, obsVars, configVars>>

\* no Config has been constructed and no call made
NoConfig == [scope |-> "none"]
NoCall == [op |-> "none"]

\* the host application with a plugin running, a library open and nothing
\* selected
FullHost == [plugin |-> TRUE, library |-> TRUE, items |-> Undefined, folders |-> Undefined]
\* eagle?.plugin?.manifest?.id, eagle?.library?.path are there
HasPlugin == host.plugin
HasLibrary == host.library

ConfigIdle ==
    /\ mem = <<>>
    /\ instances = <<>>
    /\ disk = <<>>
    /\ cfg = NoConfig
    /\ refs = 0
    /\ steps = 0
    /\ prev = NoCall
    /\ last = NoCall
    /\ host = FullHost

StoreIdle ==
    /\ fileContent = Absent
    /\ fileMtime = 0
    /\ heap = Construct(Absent, 0).heap
    /\ data = Construct(Absent, 0).data
    /\ rawData = [proxied |-> TRUE, tree |-> EmptyTree]
    /\ lastModified = 0
    /\ batchMode = FALSE
    /\ queuedSave = FALSE
    /\ calls = [i \in CallIds |-> IdleTask]
    /\ micro = <<>>
    /\ ops = 0
    /\ lastSet = NoSet
    /\ access = NoAccess
    /\ dirty = FALSE

StoreInit ==
    /\ clock = 0
    /\ ticks = 0
    /\ lockFile = NoLock
    /\ lockHolder = [p \in Procs |-> NoHolder]
    /\ task = [p \in Procs |-> IdleTask]
    /\ fileContent \in InitialFiles
    /\ fileMtime = 0
    /\ heap = Construct(fileContent, 0).heap
    /\ data = Construct(fileContent, 0).data
    /\ rawData = [proxied |-> TRUE, tree |-> EmptyTree]
    /\ lastModified = 0
    /\ batchMode = FALSE
    /\ queuedSave = FALSE
    /\ calls = [i \in CallIds |-> IdleTask]
    /\ micro = <<>>
    /\ ops = 0
    /\ lastSet = NoSet
    /\ access = NoAccess
    /\ dirty = FALSE
    /\ ConfigIdle

StoreNext ==
    \/ \E k \in StoreKeys, v \in StoreValues : StoreSet(k, v)
    \/ \E k \in StoreKeys, v \in StoreValues : StoreSetDefault(k, v)
    \/ \E k \in StoreKeys : StorePop(k)
    \/ StoreSave
    \/ BeginBatch
    \/ EndBatch
    \/ ResumeSave
    \/ Restart

\* the same store with the other process, the clock, the watcher and the
\* timers of #acquireLock; the client sets one key
SharedNext ==
    \/ StoreSet(ThemeKey, Str("dark"))
    \/ BeginBatch
    \/ EndBatch
    \/ WatcherTick
    \/ ResumeSave
    \/ ResumeLoad
    \/ \E i \in CallIds : ResumeTimer(i)
    \/ \E i \in CallIds : Settle(i)
    \/ Restart
    \/ OtherLocks
    \/ OtherWrites
    \/ OtherUnlocks
    \/ StoreTick

SharedSpec == StoreInit /\ [][SharedNext]_vars

StoreSpec == StoreInit /\ [][StoreNext]_vars

(***************************************************************************)
(* Config (part_002).  The host application `eagle` gives the plugin and   *)
(* library context; the items the client code binds are host objects with  *)
(* a filePath.  A key is a string of tokens as above.                      *)
(***************************************************************************)
KeyUpstreamThreshold == 3

\* eagle.plugin.manifest.id, eagle.plugin.path, eagle.library.path,
\* roamingPath, os.homedir()
PluginId == <<"plug">>
PluginPath == <<"plugins", Slash, "plug">>
LibraryPath == <<"lib">>
RoamingPath == <<"roaming">>
HomePath == <<"home", Slash, ".eaglecooler">>

\* Scope
Scopes == {"app", "plugin", "item", "folder", "library", "user"}

\* pieces.join(sep)
RECURSIVE Join(_, _)
Join(pieces, sep) ==
    IF pieces = <<>> THEN <<>>
    ELSE IF Len(pieces) = 1 THEN pieces[1]
    ELSE pieces[1] \o <<sep>> \o Join(Tail(pieces), sep)

\* path.dirname(p)
Dirname(p) == Join(Front(Split(p)), Slash)

\* the order String.prototype.localeCompare gives the attribute names
Collation == <<"1", "2", "a", "b", "folderOnly", "pluginId", "ref">>
Rank(name) == CHOOSE i \in DOMAIN Collation : Collation[i] = name[1]

\* no attribute: {}
NoAttributes == [k \in {} |-> <<>>]

\* the first "}" of the key
FirstClose(key) == CHOOSE j \in DOMAIN key : key[j] = "}" /\ \A i \in 1 .. (j - 1) : key[i] # "}"

\* key.match(/^\{([^}]+)\}(.+)$/)
Matches(key) ==
    /\ key # <<>>
    /\ key[1] = "{"
    /\ \E j \in DOMAIN key : key[j] = "}"
    /\ FirstClose(key) > 2
    /\ FirstClose(key) < Len(key)

\* for (const pair of pairs): attributes[k] = v when both are non-empty
RECURSIVE ParsePairs(_, _)
ParsePairs(pairs, attributes) ==
    IF pairs = <<>> THEN attributes
    ELSE LET kv == SplitOn(pairs[1], "=")
             k == kv[1]
             v == IF Len(kv) >= 2 THEN kv[2] ELSE <<>>
         IN ParsePairs(Tail(pairs),
                       IF k # <<>> /\ v # <<>> THEN Put(attributes, k, v) ELSE attributes)

\* Config.#parseKeyWithAttributes
ParseKeyWithAttributes(key) ==
    IF ~Matches(key) THEN [attributes |-> NoAttributes, key |-> key]
    ELSE LET j == FirstClose(key)
             attrsStr == SubSeq(key, 2, j - 1)
             actualKey == SubSeq(key, j + 1, Len(key))
         IN [attributes |-> ParsePairs(SplitOn(attrsStr, "&"), NoAttributes),
             key |-> actualKey]

\* the names in descending order
RECURSIVE SortedNamesDescending(_)
SortedNamesDescending(names) ==
    IF names = {} THEN <<>>
    ELSE LET first == CHOOSE n \in names : \A o \in names : Rank(n) >= Rank(o)
         IN <<first>> \o SortedNamesDescending(names \ {first})

\* Object.entries(attributes).sort by name: the names in ascending order
RECURSIVE SortedNames(_)
SortedNames(names) ==
    IF names = {} THEN <<>>
    ELSE LET first == CHOOSE n \in names : \A o \in names : Rank(n) <= Rank(o)
         IN <<first>> \o SortedNames(names \ {first})

\* sortedEntries.map(([k, v]) => `${k}=${v}`)
Entries(attributes, names) == [i \in DOMAIN names |-> names[i] \o <<"=">> \o attributes[names[i]]]

\* Config.#buildKeyWithAttributes
BuildKeyWithAttributes(attributes, key) ==
    IF DOMAIN attributes = {} THEN key
    ELSE <<"{">> \o Join(Entries(attributes, SortedNames(DOMAIN attributes)), "&")
                 \o <<"}">> \o key

\* handlers of which folderOnly drops what pluginOnly added
HandleExclusive(flag, attributes) ==
    IF flag = "pluginOnly" THEN Put(attributes, <<"pluginId">>, PluginId)
    ELSE IF flag = "folderOnly"
    THEN Put(Remove(attributes, <<"pluginId">>), <<"folderOnly">>, <<"true">>)
    ELSE attributes

\* the registered handlers: pluginOnly adds pluginId, folderOnly adds
\* folderOnly: true; a flag with no handler adds nothing
Handle(flag, attributes) ==
    IF flag = "pluginOnly" THEN Put(attributes, <<"pluginId">>, PluginId)
    ELSE IF flag = "folderOnly" THEN Put(attributes, <<"folderOnly">>, <<"true">>)
    ELSE attributes

\* FlagHandler.processFlags
RECURSIVE ProcessFlags(_, _, _)
ProcessFlags(scope, flags, attributes) ==
    IF flags = <<>> THEN attributes
    ELSE ProcessFlags(scope, Tail(flags), Handle(flags[1], attributes))

\* Config.#buildKey
BuildKey(c, key) ==
    LET p == ParseKeyWithAttributes(key)
    IN BuildKeyWithAttributes(ProcessFlags(c.scope, c.flags, p.attributes), p.key)

\* the items of the library: host objects with a filePath, each in its own
\* directory of the library
ItemNames == <<"a", "b", "c", "d", "e">>
NumItems == Len(ItemNames)
ItemPath(i) == LibraryPath \o <<Slash, ItemNames[i], Slash, "file">>
ItemNode(i) == [t |-> "object", len |-> 0, m |-> [k \in {<<"filePath">>} |-> Str(ItemPath(i))]]

\* the lists of items the client code binds: three items, four items, the
\* same four in another order, four with one other item, none
TargetLists == << <<1, 2, 3>>, <<1, 2, 3, 4>>, <<4, 3, 2, 1>>, <<1, 2, 3, 5>>, <<>> >>
ListNode(l) ==
    [t |-> "array", len |-> Len(l),
     m |-> [k \in {NumeralOf(i - 1) : i \in DOMAIN l} |-> Ref(l[ParseInt(k) + 1])]]

\* the host objects: item i at address i, list j after the items
HostMem ==
    [a \in 1 .. (NumItems + Len(TargetLists)) |->
        IF a <= NumItems THEN ItemNode(a) ELSE ListNode(TargetLists[a - NumItems])]
ItemRef(i) == Ref(i)
ListRef(j) == Ref(NumItems + j)

\* the backing files, named by their directory (<dir>/coolerConfig.json)
Files == {RoamingPath, PluginPath, LibraryPath, HomePath}
             \cup {Dirname(ItemPath(i)) : i \in 1 .. NumItems}

\* JsonFile._instances has no entry for the file
NoInstance == [data |-> Undefined, saves |-> 0]

\* this._args = null; an argument that was not supplied
NoArgs == [item |-> Undefined, folder |-> Undefined]
\* this._cache = null
NoCache == <<>>

\* the world the operations of Config act on
World == [mem |-> mem, instances |-> instances, disk |-> disk, refs |-> refs]

\* getInstance registers the new instance, r what JSON.parse built
Registered(w, file, r) ==
    [w EXCEPT !.mem = r.h, !.instances[file] = [data |-> r.value, saves |-> 0]]

\* JsonFile.getInstance(filename): the registered instance, else a new one
\* (constructor: loadSync, then the Proxy)
GetInstance(w, file) ==
    IF w.instances[file] # NoInstance THEN w
    ELSE Registered(w, file, JsonParse(w.mem, LoadSync(w.disk[file], 0, 0).tree))

\* the outcomes of a method of Config: the world and the Config afterwards,
\* and the value returned or the error thrown
Throws(w, c, err) == [w |-> w, c |-> c, threw |-> TRUE, err |-> err, value |-> Undefined]
Returns(w, c, value) == [w |-> w, c |-> c, threw |-> FALSE, err |-> "none", value |-> value]

\* validateFlags checking the context requirements only
RECURSIVE ValidateFlagsContextOnly(_, _)
ValidateFlagsContextOnly(scope, flags) ==
    IF flags = <<>> THEN "none"
    ELSE IF flags[1] = "pluginOnly" /\ ~HasPlugin THEN "no context"
    ELSE ValidateFlagsContextOnly(scope, Tail(flags))

\* FlagHandler.validateFlags: the error of the first flag that is invalid
\* for the scope or lacks its context, "none" if there is none
RECURSIVE ValidateFlags(_, _)
ValidateFlags(scope, flags) ==
    IF flags = <<>> THEN "none"
    ELSE IF flags[1] = "pluginOnly" /\ scope = "plugin" THEN "invalid scope"
    ELSE IF flags[1] = "pluginOnly" /\ ~HasPlugin THEN "no context"
    ELSE IF flags[1] = "folderOnly" /\ scope = "folder" THEN "invalid scope"
    ELSE ValidateFlags(scope, Tail(flags))

\* new Set(flags): a flag once, at its first place
RECURSIVE Dedup(_)
Dedup(flags) ==
    IF flags = <<>> THEN <<>>
    ELSE LET front == Dedup(Front(flags))
         IN IF \E i \in DOMAIN front : front[i] = Last(flags) THEN front
            ELSE Append(front, Last(flags))

\* new Config(scope, flags)
NewConfig(scope, flags) ==
    [scope |-> scope, flags |-> Dedup(flags), args |-> NoArgs, cache |-> NoCache,
     keyUpstreamToggle |-> TRUE, keyUpstreamThreshold |-> KeyUpstreamThreshold]

\* #createCache without the tests of the host's context
CreateCacheUnchecked(w, c) ==
    IF c.scope = "app" THEN Returns(GetInstance(w, RoamingPath), c, RoamingPath)
    ELSE IF c.scope = "plugin" THEN Returns(GetInstance(w, PluginPath), c, PluginPath)
    ELSE IF c.scope = "item" THEN
        IF c.args.item = Undefined THEN Throws(w, c, "Error")
        ELSE LET items == c.args.item
                 first == IF IsArray(w.mem, items)
                          THEN GetProp(w.mem[items.v], NumeralOf(0))
                          ELSE items
             IN IF first = Undefined THEN Throws(w, c, "TypeError")
                ELSE LET file == Dirname(GetProp(w.mem[first.v], <<"filePath">>).v)
                     IN Returns(GetInstance(w, file), c, file)
    ELSE IF c.scope \in {"folder", "library"} THEN
        Returns(GetInstance(w, LibraryPath), c, LibraryPath)
    ELSE IF c.scope = "user" THEN Returns(GetInstance(w, HomePath), c, HomePath)
    ELSE Throws(w, c, "Error")

\* Config.#createCache: the file of the scope, its instance created
CreateCache(w, c) ==
    IF c.scope = "app" THEN Returns(GetInstance(w, RoamingPath), c, RoamingPath)
    ELSE IF c.scope = "plugin" THEN
        IF ~HasPlugin THEN Throws(w, c, "Error")
        ELSE Returns(GetInstance(w, PluginPath), c, PluginPath)
    ELSE IF c.scope = "item" THEN
        IF c.args.item = Undefined THEN Throws(w, c, "Error")
        ELSE LET items == c.args.item
                 first == IF IsArray(w.mem, items)
                          THEN GetProp(w.mem[items.v], NumeralOf(0))
                          ELSE items
             IN \* items[0].filePath of an empty list
                IF first = Undefined THEN Throws(w, c, "TypeError")
                ELSE LET file == Dirname(GetProp(w.mem[first.v], <<"filePath">>).v)
                     IN Returns(GetInstance(w, file), c, file)
    ELSE IF c.scope \in {"folder", "library"} THEN
        IF ~HasLibrary THEN Throws(w, c, "Error")
        ELSE Returns(GetInstance(w, LibraryPath), c, LibraryPath)
    ELSE IF c.scope = "user" THEN Returns(GetInstance(w, HomePath), c, HomePath)
    ELSE Throws(w, c, "Error")

\* this._args after supplyArgs(args); `selected` is what the host's
\* selection query returns when it is asked
BoundArgs(c, args, selected) ==
    IF args.item # Undefined \/ args.folder # Undefined THEN [c EXCEPT !.args = args]
    ELSE IF c.scope = "item" THEN [c EXCEPT !.args = [NoArgs EXCEPT !.item = selected]]
    ELSE IF c.scope = "folder" THEN [c EXCEPT !.args = [NoArgs EXCEPT !.folder = selected]]
    ELSE c

\* this._cache = this.#createCache(); return this
Supplied(r, c) ==
    IF r.threw THEN Throws(r.w, c, r.err)
    ELSE Returns(r.w, [c EXCEPT !.cache = r.value], Undefined)

\* supplyArgs assigning this._args before it tests the arguments
SupplyArgsBindFirst(w, c, args, selected) ==
    IF args.item # Undefined /\ args.folder # Undefined
    THEN Throws(w, [c EXCEPT !.args = args], "Error")
    ELSE IF /\ args.item = Undefined /\ args.folder = Undefined
            /\ c.scope \in {"item", "folder"}
            /\ (selected = Undefined \/ w.mem[selected.v].len = 0)
    THEN Throws(w, c, "Error")
    ELSE Supplied(CreateCache(w, BoundArgs(c, args, selected)), BoundArgs(c, args, selected))

\* Config.supplyArgs(args)
SupplyArgs(w, c, args, selected) ==
    IF args.item # Undefined /\ args.folder # Undefined THEN Throws(w, c, "Error")
    ELSE IF /\ args.item = Undefined /\ args.folder = Undefined
            /\ c.scope \in {"item", "folder"}
            /\ (selected = Undefined \/ w.mem[selected.v].len = 0)
    THEN Throws(w, c, "Error")
    ELSE Supplied(CreateCache(w, BoundArgs(c, args, selected)), BoundArgs(c, args, selected))

\* Config.#getCache
Cached(r, c) ==
    IF r.threw THEN r ELSE Returns(r.w, [c EXCEPT !.cache = r.value], r.value)
GetCache(w, c) ==
    IF c.cache # NoCache THEN Returns(w, c, c.cache) ELSE Cached(CreateCache(w, c), c)

\* the list #shouldUseUpstream, #storeUpstream and #getUpstream look at:
\* the items if they are an array, else the folders if they are one
BoundList(w, c) ==
    IF IsArray(w.mem, c.args.item) THEN c.args.item
    ELSE IF IsArray(w.mem, c.args.folder) THEN c.args.folder
    ELSE Undefined

\* #shouldUseUpstream with count >= threshold in place of count > threshold
ShouldUseUpstreamAtThreshold(w, c) ==
    IF ~c.keyUpstreamToggle THEN FALSE
    ELSE LET list == BoundList(w, c)
             count == IF list = Undefined THEN 0 ELSE w.mem[list.v].len
         IN count >= c.keyUpstreamThreshold

\* Config.#shouldUseUpstream
ShouldUseUpstream(w, c) ==
    IF ~c.keyUpstreamToggle THEN FALSE
    ELSE LET list == BoundList(w, c)
             count == IF list = Undefined THEN 0 ELSE w.mem[list.v].len
         IN count > c.keyUpstreamThreshold

\* which protocol a call used
Via(r, path) ==
    [w |-> r.w, c |-> r.c, threw |-> r.threw, err |-> r.err, value |-> r.value,
     path |-> path]

\* Config.#generateRefId: the n-th id generated
RefId(n) == <<"r" \o ToString(n)>>

\* the world after setDeep returned or threw r: the Proxy's set trap starts
\* a save() each time it runs
AfterSet(w, file, r) ==
    [w |-> [w EXCEPT !.mem = r.h, !.instances[file].saves = @ + r.traps],
     threw |-> r.threw]

\* cache.set(key, value) on the instance of `file`
InstanceSet(w, file, key, value) ==
    AfterSet(w, file, JsonFileSet(w.mem, w.instances[file].data, key, value))

\* #storeUpstream, `affected`: the bound list, else a new []
Affected(w, c) ==
    IF BoundList(w, c) = Undefined
    THEN [w |-> [w EXCEPT !.mem = Alloc(w.mem, EmptyArray)], value |-> Ref(NewAddr(w.mem))]
    ELSE [w |-> w, value |-> BoundList(w, c)]

\* #storeUpstream: libraryConfig.set(`@${refId}`, affected)
StoreReference(a, refId) == InstanceSet(a.w, LibraryPath, <<"@">> \o refId, a.value)

\* #storeUpstream, #getUpstream: the key of the data, ref among its attributes
DataKey(key, refId) ==
    BuildKeyWithAttributes(Put(ParseKeyWithAttributes(key).attributes, <<"ref">>, refId),
                           ParseKeyWithAttributes(key).key)

\* #storeUpstream: return refId
StoredData(s, c, refId) ==
    IF s.threw THEN Throws(s.w, c, "Error") ELSE Returns(s.w, c, refId)

\* #storeUpstream: libraryConfig.set(dataKey, value)
StoreData(s, c, key, value, refId) ==
    IF s.threw THEN Throws(s.w, c, "Error")
    ELSE StoredData(InstanceSet(s.w, LibraryPath, DataKey(key, refId), value), c, refId)

\* Config.#storeUpstream
StoreUpstream(w, c, key, value) ==
    StoreData(StoreReference(Affected(GetInstance([w EXCEPT !.refs = @ + 1], LibraryPath), c),
                             RefId(w.refs + 1)),
              c, key, value, RefId(w.refs + 1))

\* libraryConfig.getAll(), cache.delete(..): class JsonFile defines neither
\* method, the call is a TypeError (... is not a function) and what follows
\* it in the caller is not reached
NotAFunction(w, c, method) ==
    IF method \in JsonFileMethods THEN Returns(w, c, Undefined) ELSE Throws(w, c, "TypeError")

\* Config.#getUpstream
GetUpstream(w, c, key) == NotAFunction(GetInstance(w, LibraryPath), c, "getAll")

\* this.#getCache().get(key)
CacheGet(g, key) ==
    IF g.threw THEN g
    ELSE Returns(g.w, g.c, JsonFileGet(g.w.mem, g.w.instances[g.value].data, key, Null))

\* Config.get
ConfigGet(w, c, key) ==
    IF ShouldUseUpstream(w, c) THEN Via(GetUpstream(w, c, key), "upstream")
    ELSE Via(CacheGet(GetCache(w, c), BuildKey(c, key)), "direct")

\* set returns nothing
Discard(r) == IF r.threw THEN r ELSE Returns(r.w, r.c, Undefined)
SetDone(s, c) == IF s.threw THEN Throws(s.w, c, "Error") ELSE Returns(s.w, c, Undefined)

\* this.#getCache().set(key, value)
CacheSet(g, key, value) ==
    IF g.threw THEN g ELSE SetDone(InstanceSet(g.w, g.value, key, value), g.c)

\* set storing under the key as given, not under #buildKey(key)
ConfigSetRawKey(w, c, key, value) ==
    IF ShouldUseUpstream(w, c) THEN Via(Discard(StoreUpstream(w, c, key, value)), "upstream")
    ELSE Via(CacheSet(GetCache(w, c), key, value), "direct")

\* Config.set
ConfigSet(w, c, key, value) ==
    IF ShouldUseUpstream(w, c) THEN Via(Discard(StoreUpstream(w, c, key, value)), "upstream")
    ELSE Via(CacheSet(GetCache(w, c), BuildKey(c, key), value), "direct")

\* setdefault: this.set(key, value); return value
Answer(stored, value) ==
    IF stored.threw THEN stored ELSE Via(Returns(stored.w, stored.c, value), stored.path)

\* setdefault after existingValue = this.get(key)
SetdefaultWith(existing, key, value) ==
    IF existing.threw THEN existing
    ELSE IF existing.value = Undefined
    THEN Answer(ConfigSet(existing.w, existing.c, key, value), value)
    ELSE existing

\* Config.setdefault
ConfigSetdefault(w, c, key, value) == SetdefaultWith(ConfigGet(w, c, key), key, value)

\* this.#getCache().delete(key)
CacheDelete(g) == IF g.threw THEN g ELSE NotAFunction(g.w, g.c, "delete")

\* Config.delete
ConfigDelete(w, c, key) ==
    IF ShouldUseUpstream(w, c)
    THEN Via(NotAFunction(GetInstance(w, LibraryPath), c, "getAll"), "upstream")
    ELSE Via(CacheDelete(GetCache(w, c)), "direct")

\* pop: return value
Popped(deleted, value) ==
    IF deleted.threw THEN deleted
    ELSE Via(Returns(deleted.w, deleted.c, value), deleted.path)

\* pop after value = this.get(key)
PopWith(got, key) ==
    IF got.threw THEN got ELSE Popped(ConfigDelete(got.w, got.c, key), got.value)

\* Config.pop
ConfigPop(w, c, key) == PopWith(ConfigGet(w, c, key), key)

(***************************************************************************)
(* ConfigSpec and UpstreamSpec: the client code holds Config instances,    *)
(* each constructed, tuned and bound by supplyArgs, and calls get, set,    *)
(* setdefault, pop and delete on them; the saves the calls start complete  *)
(* later.  ConfigSpec follows the instances on the direct path with keys   *)
(* of one and two segments, UpstreamSpec the instances bound to lists.     *)
(***************************************************************************)
MaxSteps == 3

TagKey == Word("tag")
AttrTagKey == <<"{", "b", "=", "2", "&", "a", "=", "1", "}", "tag">>
ConfigKeys == {TagKey, SettingsKey, SettingsThemeKey, AttrTagKey}
UpstreamKeys == {TagKey}
ConfigValues == StoreValues

\* how the client code sets its instances up: scope, flags, the fields it
\* assigns and the arguments it supplies
Setup(scope, flags, toggle, threshold, args) ==
    [scope |-> scope, flags |-> flags, toggle |-> toggle, threshold |-> threshold,
     args |-> args]
Items(x) == [NoArgs EXCEPT !.item = x]
Folders(x) == [NoArgs EXCEPT !.folder = x]
Setups ==
    << Setup("user", <<>>, TRUE, KeyUpstreamThreshold, NoArgs),
       Setup("item", <<"pluginOnly">>, TRUE, KeyUpstreamThreshold, Items(ListRef(1))),
       Setup("item", <<>>, TRUE, KeyUpstreamThreshold, Items(ItemRef(1))),
       Setup("item", <<>>, TRUE, KeyUpstreamThreshold, Items(ListRef(2))),
       Setup("item", <<>>, TRUE, KeyUpstreamThreshold, Items(ListRef(3))),
       Setup("item", <<>>, TRUE, KeyUpstreamThreshold, Items(ListRef(4))),
       Setup("item", <<>>, FALSE, KeyUpstreamThreshold, Items(ListRef(2))),
       Setup("folder", <<>>, TRUE, KeyUpstreamThreshold + 1, Folders(ListRef(2))),
       Setup("library", <<>>, TRUE, KeyUpstreamThreshold, Folders(ListRef(2))),
       Setup("item", <<"pluginOnly">>, TRUE, KeyUpstreamThreshold, Items(ListRef(2))) >>
ConfigIds == DOMAIN Setups
\* the instances ConfigSpec follows, and those UpstreamSpec follows
DirectIds == {1, 2}
ListIds == 2 .. 9
\* the instances with pluginOnly: bound to three items, and to four
FlagIds == {2, 10}

\* new Config(scope, flags), the two fields assigned, supplyArgs(args)
Bind(w, s) ==
    LET c == [NewConfig(s.scope, s.flags) EXCEPT !.keyUpstreamToggle = s.toggle,
                                                !.keyUpstreamThreshold = s.threshold]
    IN SupplyArgs(w, c, s.args, Undefined)

\* the instances bound so far and the one supplyArgs returned r for
Bound(r, bound) == [w |-> r.w, cfg |-> Append(bound, r.c), threw |-> r.threw]

\* the world after the first n setups; the setting up ends at the first
\* supplyArgs that throws
RECURSIVE BindAll(_, _)
BindAll(w, n) ==
    IF n = 0 THEN [w |-> w, cfg |-> <<>>, threw |-> FALSE]
    ELSE LET b == BindAll(w, n - 1)
         IN IF b.threw THEN b ELSE Bound(Bind(b.w, Setups[n]), b.cfg)

\* the document the instance of `file` serves (has, once created)
DocOf(w, file) ==
    IF w.instances[file] = NoInstance THEN LoadSync(w.disk[file], 0, 0).tree
    ELSE JsonStringify(w.mem, w.instances[file].data)

\* the file a call works on: the library's under the upstream protocol,
\* else the one of the instance's cache
FileOf(r) == IF r.path = "upstream" THEN LibraryPath ELSE r.c.cache

\* what the claims observe of a call: who called what, the outcome, and the
\* document of the file it works on before and after
Call(op, id, key, value, w, r) ==
    [op |-> op, by |-> id, key |-> key, value |-> value, path |-> r.path,
     threw |-> r.threw, err |-> r.err, result |-> JsonStringify(r.w.mem, r.value),
     before |-> IF FileOf(r) \in Files THEN DocOf(w, FileOf(r)) ELSE Undefined,
     after |-> IF FileOf(r) \in Files THEN DocOf(r.w, FileOf(r)) ELSE Undefined]

\* the call and its effects
Apply(op, id, key, value, r) ==
    /\ steps < MaxSteps
    /\ steps' = steps + 1
    /\ mem' = r.w.mem
    /\ instances' = r.w.instances
    /\ disk' = r.w.disk
    /\ refs' = r.w.refs
    /\ cfg' = [cfg EXCEPT ![id] = r.c]
    /\ prev' = last
    /\ last' = Call(op, id, key, value, World, r)
    /\ UNCHANGED <<host, lockVars, fileVars, storeVars, obsVars>>

Get(id, key) == Apply("get", id, key, Undefined, ConfigGet(World, cfg[id], key))
Set(id, key, value) == Apply("set", id, key, value, ConfigSet(World, cfg[id], key, value))
Setdefault(id, key, value) ==
    Apply("setdefault", id, key, value, ConfigSetdefault(World, cfg[id], key, value))
Pop(id, key) == Apply("pop", id, key, Undefined, ConfigPop(World, cfg[id], key))
Delete(id, key) == Apply("delete", id, key, Undefined, ConfigDelete(World, cfg[id], key))

\* a save() started by a set trap completes: the document is written
Flush(file) ==
    /\ instances[file] # NoInstance
    /\ instances[file].saves > 0
    /\ disk' = [disk EXCEPT ![file] = JsonStringify(mem, instances[file].data)]
    /\ instances' = [instances EXCEPT ![file].saves = @ - 1]
    /\ UNCHANGED <<mem, cfg, refs, steps, prev, last, host>>
    /\ UNCHANGED <<lockVars, fileVars, storeVars, obsVars>>

\* the files the process finds
InitialDisks ==
    {[f \in Files |-> IF f = HomePath THEN t ELSE Absent] : t \in InitialFiles}

ConfigInit ==
    /\ clock = 0
    /\ ticks = 0
    /\ lockFile = NoLock
    /\ lockHolder = [p \in Procs |-> NoHolder]
    /\ task = [p \in Procs |-> IdleTask]
    /\ fileContent = Absent
    /\ fileMtime = 0
    /\ heap = Construct(Absent, 0).heap
    /\ data = Construct(Absent, 0).data
    /\ rawData = [proxied |-> TRUE, tree |-> EmptyTree]
    /\ lastModified = 0
    /\ batchMode = FALSE
    /\ queuedSave = FALSE
    /\ calls = [i \in CallIds |-> IdleTask]
    /\ micro = <<>>
    /\ ops = 0
    /\ lastSet = NoSet
    /\ access = NoAccess
    /\ dirty = FALSE
    /\ host = FullHost
    /\ \E d \in InitialDisks :
          LET b == BindAll([mem |-> HostMem, instances |-> [f \in Files |-> NoInstance],
                            disk |-> d, refs |-> 0], Len(Setups))
          IN /\ mem = b.w.mem
             /\ instances = b.w.instances
             /\ disk = b.w.disk
             /\ refs = b.w.refs
             /\ cfg = b.cfg
    /\ steps = 0
    /\ prev = NoCall
    /\ last = NoCall

ConfigNext ==
    \/ \E id \in DirectIds, k \in ConfigKeys : Get(id, k)
    \/ \E id \in DirectIds, k \in ConfigKeys, v \in ConfigValues : Set(id, k, v)
    \/ \E id \in DirectIds, k \in ConfigKeys, v \in ConfigValues : Setdefault(id, k, v)
    \/ \E id \in DirectIds, k \in ConfigKeys : Pop(id, k)
    \/ \E id \in DirectIds, k \in ConfigKeys : Delete(id, k)
    \/ \E f \in Files : Flush(f)

ConfigSpec == ConfigInit /\ [][ConfigNext]_vars

UpstreamNext ==
    \/ \E id \in ListIds, k \in UpstreamKeys : Get(id, k)
    \/ \E id \in ListIds, k \in UpstreamKeys, v \in ConfigValues : Set(id, k, v)
    \/ \E id \in ListIds, k \in UpstreamKeys, v \in ConfigValues : Setdefault(id, k, v)
    \/ \E id \in ListIds, k \in UpstreamKeys : Pop(id, k)
    \/ \E id \in ListIds, k \in UpstreamKeys : Delete(id, k)
    \/ \E f \in Files : Flush(f)

UpstreamSpec == ConfigInit /\ [][UpstreamNext]_vars

\* FlagSpec follows the instances with a flag, with plain and attributed keys
FlagKeys == {TagKey, AttrTagKey}

FlagNext ==
    \/ \E id \in FlagIds, k \in FlagKeys : Get(id, k)
    \/ \E id \in FlagIds, k \in FlagKeys, v \in ConfigValues : Set(id, k, v)
    \/ \E id \in FlagIds, k \in FlagKeys, v \in ConfigValues : Setdefault(id, k, v)
    \/ \E id \in FlagIds, k \in FlagKeys : Pop(id, k)
    \/ \E id \in FlagIds, k \in FlagKeys : Delete(id, k)
    \/ \E f \in Files : Flush(f)

FlagSpec == ConfigInit /\ [][FlagNext]_vars


LockInit ==
    /\ clock = 0
    /\ ticks = 0
    /\ lockFile \in {NoLock, CreateLock(Abandoned, 0)}
    /\ lockHolder = [p \in Procs |-> NoHolder]
    /\ task = [p \in Procs |-> IdleTask]

Init ==
    /\ LockInit
    /\ StoreIdle
    /\ ConfigIdle

Next ==
    \/ \E p \in Procs : StartOp(p)
    \/ \E p \in Procs : Acquire(p)
    \/ \E p \in Procs : FileAccess(p)
    \/ \E p \in Procs : Release(p)
    \/ \E p \in Procs : Fail(p)
    \/ Tick

Spec == Init /\ [][Next]_vars

(***************************************************************************)
(* WaitSpec: one call of #acquireLock by this process, started at time 0,  *)
(* while other processes create and remove the sentinel as they like.      *)
(* The synchronous code takes no time and the timers are punctual: time    *)
(* passes only while the call sleeps, and then up to its wake-up time.     *)
(***************************************************************************)

\* the run is followed until the call has waited this long
WaitHorizon == LockTimeout + LockRetryInterval

\* the call sleeps in setTimeout(resolve, lockRetryInterval)
Sleep ==
    /\ task[Self].pc = "sleep"
    /\ clock < task[Self].wake
    /\ clock <= WaitHorizon
    /\ clock' = task[Self].wake
    /\ UNCHANGED <<ticks, lockFile, lockHolder, task>>
    /\ UNCHANGED <<fileVars, storeVars, obsVars, configVars>>

WaitInit ==
    /\ clock = 0
    /\ ticks = 0
    /\ lockFile \in {NoLock, CreateLock(Pid(Other), 0),
                     CreateLock(Abandoned, 0 - (LockMaxAge * 1000 + 1))}
    /\ lockHolder = [p \in Procs |-> NoHolder]
    /\ task = [p \in Procs |-> IF p = Self THEN [IdleTask EXCEPT !.pc = "enter", !.kind = "save"]
                               ELSE IdleTask]
    /\ StoreIdle
    /\ ConfigIdle

WaitNext ==
    \/ Acquire(Self)
    \/ Sleep
    \/ FileAccess(Self)
    \/ Release(Self)
    \/ Fail(Self)
    \/ OtherLocks
    \/ OtherUnlocks

WaitSpec == WaitInit /\ [][WaitNext]_vars

(***************************************************************************)
(* KeySpec: the client code writes raw keys, an attribute prefix of up to  *)
(* MaxPairs name=value pairs before a base key, and a Config with some     *)
(* flags builds the stored key of each (#buildKey, as get and set do on    *)
(* the direct path).  prev and last hold the last two keys built.          *)
(***************************************************************************)
MaxPairs == 2

AttrNames == {<<"a">>, <<"b">>}
AttrValues == {<<"1">>, <<"2">>}
Pairs == {<<n, v>> : n \in AttrNames, v \in AttrValues}
PairLists == UNION {[1 .. n -> Pairs] : n \in 0 .. MaxPairs}
BaseKeys == {TagKey}
FlagLists == {<<>>, <<"pluginOnly">>, <<"folderOnly", "pluginOnly">>,
              <<"pluginOnly", "folderOnly">>}

\* the raw key the client writes: `{${n1}=${v1}&${n2}=${v2}}${base}`
RawKey(pairs, base) ==
    IF pairs = <<>> THEN base
    ELSE <<"{">> \o Join([i \in DOMAIN pairs |-> pairs[i][1] \o <<"=">> \o pairs[i][2]], "&")
                 \o <<"}">> \o base

\* this.#buildKey(key) of a Config with the flags
BuildKeyCall(flags, pairs, base) ==
    /\ prev' = last
    /\ last' = [op |-> "buildKey", flags |-> flags, pairs |-> pairs, base |-> base,
                key |-> RawKey(pairs, base),
                result |-> BuildKey(NewConfig("item", flags), RawKey(pairs, base))]
    /\ UNCHANGED <<mem, instances, disk, cfg, refs, steps, host>>
    /\ UNCHANGED <<lockVars, fileVars, storeVars, obsVars>>

KeyInit == Init /\ lockFile = NoLock

KeyNext == \E flags \in FlagLists, pairs \in PairLists, base \in BaseKeys :
               BuildKeyCall(flags, pairs, base)

KeySpec == KeyInit /\ [][KeyNext]_vars

(***************************************************************************)
(* SetupSpec: the client code constructs Config instances and calls        *)
(* supplyArgs on them, in a host that may lack a plugin, a library or a    *)
(* selection.                                                              *)
(***************************************************************************)
MaxConfigs == 1

\* new Config(scope, flags): validateFlags first, then the fields
ConfigConstructor(w, scope, flags) ==
    IF ValidateFlags(scope, flags) # "none" THEN Throws(w, NoConfig, "Error")
    ELSE Returns(w, NewConfig(scope, flags), Undefined)

\* the selection query of the other kind
SelectedOther(c) ==
    IF c.scope = "item" THEN host.folders
    ELSE IF c.scope = "folder" THEN host.items
    ELSE Undefined

\* supplyArgs: what the selection query it awaits returns,
\* eagle.item.getSelected() for scope item, eagle.folder.getSelected() for
\* scope folder
Selected(c) ==
    IF c.scope = "item" THEN host.items
    ELSE IF c.scope = "folder" THEN host.folders
    ELSE Undefined

\* what the client code passes: scopes (one of them unknown), flags, args
NewScopes == Scopes \cup {"bogus"}
NewFlagLists == FlagLists \cup {<<"folderOnly">>}
ArgsGiven == {NoArgs, Items(ItemRef(1)), Items(ListRef(2)), Folders(ListRef(1)),
              [item |-> ListRef(1), folder |-> ListRef(2)]}

\* the hosts: with and without plugin and library; items and folders
\* selected, an empty selection of items, an empty selection of folders
Selections == {[items |-> ListRef(1), folders |-> ListRef(2)],
               [items |-> ListRef(5), folders |-> Undefined],
               [items |-> Undefined, folders |-> ListRef(5)]}
Hosts == {[plugin |-> p, library |-> l, items |-> s.items, folders |-> s.folders] :
             p \in BOOLEAN, l \in BOOLEAN, s \in Selections}

New(scope, flags) ==
    LET r == ConfigConstructor(World, scope, flags)
    IN /\ steps < MaxSteps
       /\ Len(cfg) < MaxConfigs
       /\ steps' = steps + 1
       /\ cfg' = IF r.threw THEN cfg ELSE Append(cfg, r.c)
       /\ prev' = last
       /\ last' = [op |-> "new", by |-> 0, scope |-> scope, flags |-> flags,
                   threw |-> r.threw, err |-> r.err]
       /\ UNCHANGED <<mem, instances, disk, refs, host>>
       /\ UNCHANGED <<lockVars, fileVars, storeVars, obsVars>>

Supply(id, args) ==
    LET r == SupplyArgs(World, cfg[id], args, Selected(cfg[id]))
    IN /\ steps < MaxSteps
       /\ steps' = steps + 1
       /\ mem' = r.w.mem
       /\ instances' = r.w.instances
       /\ disk' = r.w.disk
       /\ refs' = r.w.refs
       /\ cfg' = [cfg EXCEPT ![id] = r.c]
       /\ prev' = last
       /\ last' = [op |-> "supplyArgs", by |-> id, args |-> args,
                   threw |-> r.threw, err |-> r.err]
       /\ UNCHANGED <<host, lockVars, fileVars, storeVars, obsVars>>

SetupInit ==
    /\ LockInit
    /\ lockFile = NoLock
    /\ StoreIdle
    /\ mem = HostMem
    /\ instances = [f \in Files |-> NoInstance]
    /\ disk \in InitialDisks
    /\ cfg = <<>>
    /\ refs = 0
    /\ steps = 0
    /\ prev = NoCall
    /\ last = NoCall
    /\ host \in Hosts

SetupNext ==
    \/ \E scope \in NewScopes, flags \in NewFlagLists : New(scope, flags)
    \/ \E id \in DOMAIN cfg, args \in ArgsGiven : Supply(id, args)

SetupSpec == SetupInit /\ [][SetupNext]_vars

\* a process is between a successful #acquireLock and its #releaseLock
InCriticalSection(p) == task[p].pc \in {"acquired", "release"}

\* C1: at most one process at a time is between a successful lock
\* acquisition and its matching release.
C1_MutualExclusion ==
    \A p, q \in Procs : (InCriticalSection(p) /\ InCriticalSection(q)) => p = q

\* the save() calls in flight: started and neither finished nor rejected
SavesInFlight == {i \in InFlight(calls) : calls[i].kind = "save"}

\* what a new JsonFile over the file returns for get(key)
GetAfterRestart(key) ==
    LET c == Construct(fileContent, fileMtime)
    IN JsonFileGet(c.heap, c.data, key, Null)

\* C2: every write of the backing file by save() and every read by load()
\* happens while the sentinel created by that same process exists.
C2_AccessUnderOwnSentinel == access.kind # "none" => access.owned

\* C3: no two saves of the same store are in flight at once.
C3_SavesDoNotOverlap == Cardinality(SavesInFlight) <= 1

\* C4: after set(k, v) with batch mode inactive, once every save has
\* completed, a new instance over the same file returns v for get(k).
C4_SetIsDurable ==
    (lastSet # NoSet /\ InFlight(calls) = {} /\ \A i \in CallIds : calls[i].pc # "failed")
        => GetAfterRestart(lastSet.key) = lastSet.value

\* the paths of the items or folders instance id is bound to
TargetPaths(id) ==
    LET a == cfg[id].args
        x == IF a.item # Undefined THEN a.item ELSE a.folder
        Path(e) == GetProp(mem[e.v], <<"filePath">>).v
    IN IF x = Undefined THEN {}
       ELSE IF mem[x.v].t = "array"
       THEN {Path(GetProp(mem[x.v], NumeralOf(i))) : i \in 0 .. (mem[x.v].len - 1)}
       ELSE {Path(x)}

\* the number of entries of the list instance id is bound to, 0 if it is
\* bound to no list
TargetCount(id) ==
    LET a == cfg[id].args
        x == IF a.item # Undefined THEN a.item ELSE a.folder
    IN IF x = Undefined \/ mem[x.v].t # "array" THEN 0 ELSE mem[x.v].len

\* the last two calls are by one instance on one key
SameKey == prev.op # "none" /\ last.by = prev.by /\ last.key = prev.key

\* the '@' records of a document of the library whose list names the paths
RecordsFor(doc, paths) ==
    {k \in DOMAIN doc.m :
        /\ k[1] = "@"
        /\ doc.m[k].t = "array"
        /\ {doc.m[k].v[i].m[<<"filePath">>].v : i \in DOMAIN doc.m[k].v} = paths}

C6_UpstreamRoundTrip ==
    (/\ prev.op = "set" /\ prev.path = "upstream" /\ ~prev.threw
     /\ last.op = "get" /\ last.path = "upstream" /\ last.key = prev.key
     /\ TargetPaths(last.by) = TargetPaths(prev.by))
        => (~last.threw /\ last.result = prev.value)

\* C7: under the upstream protocol, with no reference record for the
\* targets, get returns undefined, delete changes nothing in the library's
\* document, and neither raises.
C7_UpstreamMiss ==
    (/\ last.op \in {"get", "delete"} /\ last.path = "upstream"
     /\ RecordsFor(last.before, TargetPaths(last.by)) = {})
        => /\ ~last.threw
           /\ last.op = "get" => last.result = Undefined
           /\ last.op = "delete" => last.after = last.before

\* C8: get, set and delete use the upstream protocol exactly when the
\* toggle is on and the bound list has more entries than the threshold.
C8_UpstreamSelection ==
    last.op \in {"get", "set", "delete"}
        => ((last.path = "upstream")
               <=> (/\ cfg[last.by].keyUpstreamToggle
                    /\ TargetCount(last.by) > cfg[last.by].keyUpstreamThreshold))

\* a set through the upstream protocol by an instance whose list has one
\* entry more than the default threshold
C8_Witness ==
    /\ last.op = "set" /\ last.path = "upstream"
    /\ cfg[last.by].keyUpstreamThreshold = KeyUpstreamThreshold
    /\ TargetCount(last.by) = KeyUpstreamThreshold + 1
    /\ refs > 0

\* C9: on an empty store setdefault(k, v1) stores and returns v1, and a
\* following setdefault(k, v2) returns v1 and leaves the store as it is.
C9_Setdefault ==
    /\ (last.op = "setdefault" /\ last.before = EmptyTree)
           => (~last.threw /\ last.result = last.value)
    /\ (SameKey /\ prev.op = "setdefault" /\ prev.before = EmptyTree /\ last.op = "get")
           => (~last.threw /\ last.result = prev.value)
    /\ (SameKey /\ prev.op = "setdefault" /\ prev.before = EmptyTree
            /\ last.op = "setdefault")
           => (~last.threw /\ last.result = prev.value /\ last.after = last.before)

\* C10: pop(k) returns what get(k) returned just before, a following
\* get(k) returns nothing, and pop raises no error.
C10_Pop ==
    /\ last.op = "pop" => ~last.threw
    /\ (SameKey /\ prev.op = "get" /\ ~prev.threw /\ last.op = "pop")
           => last.result = prev.result
    /\ (SameKey /\ prev.op = "pop" /\ last.op = "get")
           => last.result \in {Undefined, Null}

\* the last two calls built keys for the same flags and base key from the
\* same pairs, written in any order
SamePairs ==
    /\ prev.op = "buildKey" /\ last.op = "buildKey"
    /\ prev.flags = last.flags /\ prev.base = last.base
    /\ Len(prev.pairs) = Len(last.pairs)
    /\ \E f \in [DOMAIN last.pairs -> DOMAIN last.pairs] :
          /\ \A i, j \in DOMAIN f : f[i] = f[j] => i = j
          /\ \A i \in DOMAIN f : last.pairs[i] = prev.pairs[f[i]]

\* no name occurs twice among the pairs
DistinctNames(pairs) == \A i, j \in DOMAIN pairs : pairs[i][1] = pairs[j][1] => i = j

\* the attribute names of a stored key, in the order they are written
NamesOf(key) ==
    IF ~Matches(key) THEN <<>>
    ELSE LET attrs == SplitOn(SubSeq(key, 2, FirstClose(key) - 1), "&")
         IN [i \in DOMAIN attrs |-> SplitOn(attrs[i], "=")[1]]

\* the names are in ascending order
Ascending(names) == \A i, j \in DOMAIN names : i < j => Rank(names[i]) < Rank(names[j])

ChangedKeys(call) ==
    {k \in DOMAIN call.after.m :
        /\ k[1] # "@"
        /\ (k \notin DOMAIN call.before.m \/ call.before.m[k] # call.after.m[k])}

\* the stored key carries pluginId=<the plugin's id> among its attributes
HasPluginId(k) ==
    /\ Matches(k)
    /\ <<"pluginId">> \in DOMAIN ParseKeyWithAttributes(k).attributes
    /\ ParseKeyWithAttributes(k).attributes[<<"pluginId">>] = PluginId

\* C12: with scope item and flag pluginOnly, every key under which set
\* stores a value carries the attribute pluginId, and what get returns is
\* stored under such a key, on the direct and on the upstream path.
C12_PluginOnlyInjection ==
    (last.op \in {"get", "set"} /\ ~last.threw /\ cfg[last.by].scope = "item"
        /\ \E i \in DOMAIN cfg[last.by].flags : cfg[last.by].flags[i] = "pluginOnly")
        => /\ last.op = "set" => \A k \in ChangedKeys(last) : HasPluginId(k)
           /\ (last.op = "get" /\ last.result \notin {Undefined, Null})
                 => \E k \in DOMAIN last.before.m :
                       HasPluginId(k) /\ last.before.m[k] = last.result

\* the flag is among the flags
HasFlag(flags, flag) == \E i \in DOMAIN flags : flags[i] = flag

\* a flag is forbidden for the scope
Conflict(scope, flags) ==
    \/ HasFlag(flags, "pluginOnly") /\ scope = "plugin"
    \/ HasFlag(flags, "folderOnly") /\ scope = "folder"

\* nothing was created, read, written or locked in the step
NoIO ==
    /\ instances' = instances
    /\ disk' = disk
    /\ mem' = mem
    /\ lockFile' = lockFile
    /\ fileContent' = fileContent

\* C13: constructing a Config with a flag forbidden for its scope fails,
\* and creates no JsonFile, reads and writes no file and touches no lock.
C13_FlagScopeConflict ==
    [][(last'.op = "new" /\ Conflict(last'.scope, last'.flags))
          => (last'.threw /\ cfg' = cfg /\ NoIO)]_vars

\* new Config('folder', ['folderOnly']) has failed and nothing exists
C13_Witness ==
    /\ last.op = "new" /\ last.scope = "folder" /\ last.flags = <<"folderOnly">>
    /\ last.threw
    /\ cfg = <<>>
    /\ \A f \in Files : instances[f] = NoInstance

\* C14: no Config with a scope outside Scope exists.
C14_InvalidScopeRejected == \A i \in DOMAIN cfg : cfg[i].scope \in Scopes

\* C15: pluginOnly without a plugin id fails at construction; scope plugin
\* without a plugin id and scopes folder and library without a library
\* path fail at supplyArgs; no store is bound.
C15_MissingContext ==
    [][/\ (last'.op = "new" /\ HasFlag(last'.flags, "pluginOnly") /\ ~host.plugin)
            => (last'.threw /\ cfg' = cfg /\ NoIO)
       /\ (/\ last'.op = "supplyArgs"
           /\ \/ cfg[last'.by].scope = "plugin" /\ ~host.plugin
              \/ cfg[last'.by].scope \in {"folder", "library"} /\ ~host.library)
            => (last'.threw /\ cfg'[last'.by].cache = NoCache /\ NoIO)]_vars

\* supplyArgs with folders given has failed on a Config of scope library in
\* a host with no library open
C15_Witness ==
    /\ last.op = "supplyArgs" /\ last.args = Folders(ListRef(1))
    /\ cfg[last.by].scope = "library"
    /\ ~host.library
    /\ last.threw
    /\ cfg[last.by].cache = NoCache

\* C16: supplyArgs with both item and folder fails and leaves the bound
\* arguments and the bound store as they were.
C16_ConflictingArgs ==
    [][(/\ last'.op = "supplyArgs"
        /\ last'.args.item # Undefined /\ last'.args.folder # Undefined)
          => (last'.threw /\ cfg' = cfg /\ NoIO)]_vars

\* supplyArgs with both has failed on a Config that an earlier supplyArgs
\* bound to arguments and a store
C16_Witness ==
    /\ prev.op = "supplyArgs" /\ ~prev.threw
    /\ last.op = "supplyArgs" /\ last.threw
    /\ last.args.item # Undefined /\ last.args.folder # Undefined
    /\ cfg[last.by].args = prev.args
    /\ cfg[last.by].args # NoArgs
    /\ cfg[last.by].cache # NoCache

\* what the host's selection query for the scope returns
SelectionFor(scope) == IF scope = "item" THEN host.items ELSE host.folders

\* C17: supplyArgs with neither item nor folder on scope item (folder)
\* fails and binds nothing if the host's selection of items (folders) is
\* empty, else binds the selection.
C17_EmptySelection ==
    [][(/\ last'.op = "supplyArgs" /\ last'.args = NoArgs
        /\ cfg[last'.by].scope \in {"item", "folder"})
          => LET scope == cfg[last'.by].scope
                 sel == SelectionFor(scope)
             IN IF sel = Undefined \/ mem[sel.v].len = 0
                THEN last'.threw /\ cfg' = cfg /\ NoIO
                ELSE cfg'[last'.by].args =
                        (IF scope = "item" THEN Items(sel) ELSE Folders(sel))]_vars

\* supplyArgs() has bound the selected folders to a Config of scope folder
C17_Witness ==
    /\ last.op = "supplyArgs" /\ last.args = NoArgs
    /\ cfg[last.by].scope = "folder"
    /\ host.folders = ListRef(2)
    /\ host.items # host.folders
    /\ ~last.threw
    /\ cfg[last.by].args = Folders(ListRef(2))

\* C18: a lock acquisition never keeps waiting longer than lockTimeout plus
\* one lockRetryInterval from its start, whatever the other processes do
\* with the sentinel.  (WaitSpec: the acquisition starts at time 0.)
C18_BoundedLockWait ==
    task[Self].pc \in AcquirePcs => clock <= LockTimeout + LockRetryInterval

\* C19: when the lock acquisition of the save started by set times out,
\* set has not returned normally.
C19_TimeoutSurfaced ==
    \A i \in CallIds :
        (calls[i].kind = "save" /\ calls[i].pc = "failed" /\ calls[i].err = "timeout")
            => lastSet = NoSet

\* the other processes have no call running
OthersIdle(p) == \A q \in Procs \ {p} : task[q].pc = "idle"

\* C20: an acquirer that finds a sentinel older than lockMaxAge, with no
\* other process competing, removes it and acquires the lock without
\* waiting; a sentinel that is not older than lockMaxAge is never removed
\* by an acquirer.
C20_StaleLockRecovery ==
    [][\A p \in Procs :
          /\ (task[p].pc = "stat" /\ lockFile.exists /\ IsStale(lockFile, clock)
                 /\ OthersIdle(p) /\ task'[p] # task[p])
                => task'[p].pc = "unlink"
          /\ (task[p].pc = "unlink" /\ lockFile.exists /\ OthersIdle(p)
                 /\ task'[p] # task[p])
                => (task'[p].pc = "create" /\ ~lockFile'.exists)
          /\ (task[p].pc = "create" /\ ~lockFile.exists /\ task'[p] # task[p])
                => (task'[p].pc = "acquired" /\ lockFile'.creator = Pid(p))
          /\ (task[p].pc \in AcquirePcs /\ task'[p] # task[p]
                 /\ lockFile.exists /\ ~lockFile'.exists)
                => IsStale(lockFile, clock)]_vars


\* ---- the store's batch mode, saves and reloads ----

\* the save() and load() calls a step starts
Started == {i \in CallIds : calls[i].pc = "idle" /\ calls'[i].pc # "idle"}

\* the step is endBatch()
EndsBatch == batchMode /\ ~batchMode' /\ ops' = ops + 1

\* C21: in batch mode no call starts a save, and endBatch() starts exactly
\* one save when the document was changed during the batch, at whatever
\* depth
C21_BatchFlush ==
    [][/\ (batchMode /\ batchMode') => Started = {}
       /\ (EndsBatch /\ dirty) => Cardinality(Started) = 1]_vars


\* the step is a call of the client that changes the document
Mutates == ops' = ops + 1 /\ JsonStringify(heap', data') # JsonStringify(heap, data)

\* C22: with batch mode off, every set, setDefault or pop that changes the
\* document, at whatever depth, starts a save() in the same call
C22_SaveOnEveryMutation == [][(~batchMode /\ Mutates) => Started # {}]_vars


\* the step is the end of a load() the watcher started
LoadCompletes == micro # <<>> /\ calls[Head(micro)].kind = "load" /\ micro' = Tail(micro)

\* C23: once the load the watcher started for a newer file is complete, the
\* document get(path) reads and save() writes is the content of the file
C23_ExternalChangeReload ==
    [][(LoadCompletes /\ Parses(fileContent)) => JsonStringify(heap', data') = fileContent]_vars


MaxInstances == 3
MaxLoads == 1

RegistryPaths == {RoamingPath, PluginPath}
\* JsonFile._instances has no entry for the path
NoId == 0

\* a JsonFile object: its filename, whether the interval of its watcher is
\* set, and the loads its watcher has started
NewJsonFile(path) == [filename |-> path, watching |-> TRUE, loads |-> 0]

\* new JsonFile(filename): throws for a registered filename, else registers
\* this and sets up the watcher
JsonFileConstructor(reg, objs, path) ==
    IF reg[path] # NoId
    THEN [threw |-> TRUE, reg |-> reg, objs |-> objs, id |-> NoId]
    ELSE [threw |-> FALSE, reg |-> [reg EXCEPT ![path] = Len(objs) + 1],
          objs |-> Append(objs, NewJsonFile(path)), id |-> Len(objs) + 1]

\* JsonFile.getInstance(filename)
JsonFileGetInstance(reg, objs, path) ==
    LET c == IF reg[path] = NoId THEN JsonFileConstructor(reg, objs, path)
             ELSE [threw |-> FALSE, reg |-> reg, objs |-> objs, id |-> NoId]
    IN [c EXCEPT !.id = c.reg[path]]

\* close(): clearInterval(this._watcherInterval), then
\* JsonFile._instances.delete(this.filename)
JsonFileClose(reg, objs, id) ==
    [reg |-> [reg EXCEPT ![objs[id].filename] = NoId],
     objs |-> [objs EXCEPT ![id].watching = FALSE]]

Created == 1 .. Len(mem)

RegistryRest ==
    UNCHANGED <<lockVars, fileVars, storeVars, obsVars, disk, cfg, refs, steps, prev, host>>

\* the client calls JsonFile.getInstance(path)
RegistryGet(path) ==
    LET r == JsonFileGetInstance(instances, mem, path)
    IN /\ Len(r.objs) <= MaxInstances
       /\ instances' = r.reg
       /\ mem' = r.objs
       /\ last' = [op |-> "getInstance", path |-> path, id |-> r.id, threw |-> r.threw]
       /\ RegistryRest

\* the client calls new JsonFile(path)
RegistryNew(path) ==
    LET r == JsonFileConstructor(instances, mem, path)
    IN /\ Len(r.objs) <= MaxInstances
       /\ instances' = r.reg
       /\ mem' = r.objs
       /\ last' = [op |-> "new", path |-> path, id |-> r.id, threw |-> r.threw]
       /\ RegistryRest

\* the client calls close() on an instance it holds
RegistryClose(id) ==
    LET r == JsonFileClose(instances, mem, id)
    IN /\ instances' = r.reg
       /\ mem' = r.objs
       /\ last' = [op |-> "close", path |-> mem[id].filename, id |-> id, threw |-> FALSE]
       /\ RegistryRest

\* the interval of an instance's watcher fires, the file is newer and the
\* callback starts load()
RegistryWatch(id) ==
    /\ mem[id].watching
    /\ mem[id].loads < MaxLoads
    /\ mem' = [mem EXCEPT ![id].loads = @ + 1]
    /\ last' = [op |-> "load", path |-> mem[id].filename, id |-> id, threw |-> FALSE]
    /\ UNCHANGED instances
    /\ RegistryRest

RegistryInit ==
    /\ LockInit
    /\ lockFile = NoLock
    /\ StoreIdle
    /\ mem = <<>>
    /\ instances = [p \in RegistryPaths |-> NoId]
    /\ disk = <<>>
    /\ cfg = NoConfig
    /\ refs = 0
    /\ steps = 0
    /\ prev = NoCall
    /\ last = NoCall
    /\ host = FullHost

RegistryNext ==
    \/ \E p \in RegistryPaths : RegistryGet(p)
    \/ \E p \in RegistryPaths : RegistryNew(p)
    \/ \E i \in Created : RegistryClose(i)
    \/ \E i \in Created : RegistryWatch(i)

RegistrySpec == RegistryInit /\ [][RegistryNext]_vars

\* the instances of a path that were constructed and not closed
Live(path) == {i \in Created : mem[i].filename = path /\ mem[i].watching}

\* at most one instance of a path is constructed and not closed
OneLive == \A p \in RegistryPaths : Cardinality(Live(p)) <= 1

\* getInstance returns the instance of the path that is not closed
SameInstance == \A p \in RegistryPaths : RegistryGet(p) => \A i \in Live(p) : last'.id = i

\* the constructor fails for a registered path and changes nothing
NewFails ==
    \A p \in RegistryPaths :
        (RegistryNew(p) /\ instances[p] # NoId)
            => (last'.threw /\ instances' = instances /\ mem' = mem)

\* close() removes the path from the registry
CloseRemoves == \A i \in Created : RegistryClose(i) => instances'[mem[i].filename] = NoId

\* only the watcher of an instance that was not closed starts a load
LoadsOnlyLive == \A i \in Created : mem'[i].loads # mem[i].loads => mem[i].watching

\* C25: at most one instance per path is live; getInstance returns the same
\* instance until that instance is closed; the constructor fails for a
\* registered path; close() removes the path from the registry, and the
\* watcher of a closed instance starts no load
C25_SingletonPerFile ==
    []OneLive /\ [][SameInstance /\ NewFails /\ CloseRemoves /\ LoadsOnlyLive]_vars


\* ---- fs.writeFileSync of the backing file by two processes ----

\* JSON.stringify(this.data) of a process, character by character: the
\* document of process 1 holds a key, the others are empty
Serialized(p) == IF p = 1 THEN <<"{", "theme", ":", "dark", "}">> ELSE <<"{", "}">>

\* a write of text at the start of a file that holds old: what lies behind
\* the written characters stays
Overwrite(old, text) ==
    IF Len(text) >= Len(old) THEN text ELSE text \o SubSeq(old, Len(text) + 1, Len(old))

\* writeFileSync opens the file with flag 'w', which truncates it
OpenTruncate(p) ==
    /\ task[p].pc = "acquired"
    /\ task[p].kind = "save"
    /\ fileContent' = <<>>
    /\ task' = [task EXCEPT ![p].pc = "opened"]
    /\ UNCHANGED <<clock, ticks, lockFile, lockHolder, fileMtime>>
    /\ UNCHANGED <<storeVars, obsVars, configVars>>

\* writeFileSync writes the serialization through its descriptor, whose
\* position is the start of the file, and closes it
WriteText(p) ==
    /\ task[p].pc = "opened"
    /\ fileContent' = Overwrite(fileContent, Serialized(p))
    /\ fileMtime' = clock
    /\ task' = [task EXCEPT ![p].pc = "written", ![p].wrote = clock]
    /\ UNCHANGED <<clock, ticks, lockFile, lockHolder>>
    /\ UNCHANGED <<storeVars, obsVars, configVars>>

\* this._lastModified = fs.statSync(this.filename).mtimeMs
StatFile(p) ==
    /\ task[p].pc = "written"
    /\ task' = [task EXCEPT ![p].pc = "release", ![p].recorded = fileMtime]
    /\ UNCHANGED <<clock, ticks, lockFile, lockHolder>>
    /\ UNCHANGED <<fileVars, storeVars, obsVars, configVars>>

\* load(): loadSync reads the file
ReadText(p) ==
    /\ task[p].kind = "load"
    /\ FileAccess(p)

\* how many times the clock advances while the processes write
MaxWriteTicks == 1

\* time passes
WriteTick ==
    /\ ticks < MaxWriteTicks
    /\ \E d \in Durations : clock' = clock + d
    /\ ticks' = ticks + 1
    /\ UNCHANGED <<lockFile, lockHolder, task>>
    /\ UNCHANGED <<fileVars, storeVars, obsVars, configVars>>

WriteInit ==
    /\ clock = 0
    /\ ticks = 0
    /\ lockFile \in {NoLock, CreateLock(Abandoned, 0 - (LockMaxAge * 1000 + 1))}
    /\ lockHolder = [p \in Procs |-> NoHolder]
    /\ task = [p \in Procs |-> IdleTask]
    /\ fileContent = Serialized(NumProcs)
    /\ fileMtime = 0
    /\ heap = Construct(Absent, 0).heap
    /\ data = Construct(Absent, 0).data
    /\ rawData = [proxied |-> TRUE, tree |-> EmptyTree]
    /\ lastModified = 0
    /\ batchMode = FALSE
    /\ queuedSave = FALSE
    /\ calls = [i \in CallIds |-> IdleTask]
    /\ micro = <<>>
    /\ ops = 0
    /\ lastSet = NoSet
    /\ access = NoAccess
    /\ dirty = FALSE
    /\ ConfigIdle

WriteNext ==
    \/ \E p \in Procs : StartOp(p)
    \/ \E p \in Procs : Acquire(p)
    \/ \E p \in Procs : OpenTruncate(p)
    \/ \E p \in Procs : WriteText(p)
    \/ \E p \in Procs : StatFile(p)
    \/ \E p \in Procs : ReadText(p)
    \/ \E p \in Procs : Release(p)
    \/ \E p \in Procs : Fail(p)
    \/ WriteTick

WriteSpec == WriteInit /\ [][WriteNext]_vars

\* no writeFileSync is between its open and its write
NoWriteUnderWay == \A p \in Procs : task[p].pc # "opened"

\* C26: whenever no write is under way, the backing file holds the complete
\* serialization of one writer's document, never a mix of two writes or a
\* fragment
C26_NoCorruption ==
    NoWriteUnderWay => \E p \in Procs : fileContent = Serialized(p)


\* C27: when the release at the end of a save() or load() has run, the
\* process records no lock holder and no sentinel it created remains, also
\* when another process had removed the sentinel before
C27_ReleaseClearsOwnership ==
    [][\A p \in Procs :
          Release(p) => /\ lockHolder'[p] = NoHolder
                        /\ ~(lockFile'.exists /\ lockFile'.creator = Pid(p))]_vars


\* the step in which #acquireLock of call i throws the timeout error
TimesOut(i) == calls[i].pc # "failed" /\ calls'[i].pc = "failed" /\ calls'[i].err = "timeout"

\* C28: a lock acquisition that fails with the timeout error has recorded
\* no lock holder and created no sentinel, the process owns no sentinel
\* then, and the failing call has neither written nor read the backing file
C28_TimeoutLeavesNoLock ==
    [][\A i \in CallIds :
          TimesOut(i) => /\ ~Owned'
                         /\ UNCHANGED <<lockHolder, lockFile, fileVars, rawData,
                                        lastModified, access>>]_vars

\* a call has timed out while the other process holds the sentinel
C28_Witness ==
    /\ \E i \in CallIds : calls[i].pc = "failed" /\ calls[i].err = "timeout"
    /\ lockFile.exists
    /\ lockFile.creator = Pid(Other)


\* C29: a save() called in batch mode starts no write and marks the pending
\* save, so that endBatch() writes
C29_SaveInBatchIsQueued == [][(StoreSave /\ batchMode) => (Started = {} /\ queuedSave')]_vars


\* no value is stored under a path
Missing == [t |-> "missing"]

\* the value a document holds under the segments of a path
RECURSIVE TreeGet(_, _)
TreeGet(tree, segs) ==
    IF segs = <<>> THEN tree
    ELSE IF tree.t = "object" /\ Head(segs) \in DOMAIN tree.m
         THEN TreeGet(tree.m[Head(segs)], Tail(segs))
    ELSE IF tree.t = "array" /\ Head(segs) = IndexName(ParseInt(Head(segs)))
                             /\ ParseInt(Head(segs)) + 1 \in DOMAIN tree.v
         THEN TreeGet(tree.v[ParseInt(Head(segs)) + 1], Tail(segs))
    ELSE Missing

\* the defaults the client passes to get
GetDefaults == {Null, Str("fallback")}

\* C30: get(path, default) returns the stored value when there is one and
\* the default when there is none, whether an intermediate or only the
\* final segment is missing
C30_GetWithDefault ==
    \A k \in StoreKeys, d \in GetDefaults :
        LET stored == TreeGet(JsonStringify(heap, data), Split(k))
            got == JsonFileGet(heap, data, k, d)
        IN IF stored = Missing THEN got = d ELSE JsonStringify(heap, got) = stored


\* ---- _traverse.js on documents with mappings and sequences ----

MaxPathOps == 2

ListKey == Word("list")
XKey == Word("x")
\* the path list/<index> and the path list/<index>/x
ElementKey(i) == ListKey \o <<Slash>> \o NumeralOf(i)
ElementXKey(i) == ElementKey(i) \o <<Slash>> \o XKey

ListTree(elements) == [t |-> "object", m |-> [k \in {ListKey} |-> [t |-> "array", v |-> elements]]]

\* the documents the calls start from: {}, {"list":[]}, {"list":["light","dark"]}
\* and {"settings":{"theme":"light"}}
PathDocs == {EmptyTree, ListTree(<<>>), ListTree(<<Str("light"), Str("dark")>>), SettingsTree}
PathKeys == {ThemeKey, SettingsThemeKey, ElementKey(0), ElementKey(2),
             ElementXKey(0), ElementXKey(2)}

\* a call of setDeep, setDefaultDeep or popDeep on the document, and what
\* the caller sees of it
PathCall(op, key, value, r) ==
    /\ ops < MaxPathOps
    /\ ops' = ops + 1
    /\ heap' = Collect(r.h, {data.v})
    /\ prev' = last
    /\ last' = [op |-> op, key |-> key, value |-> value, threw |-> r.threw,
                result |-> JsonStringify(r.h, r.value),
                before |-> JsonStringify(heap, data), after |-> JsonStringify(r.h, data)]
    /\ UNCHANGED <<lockVars, fileVars, data, rawData, lastModified, batchMode, queuedSave,
                   calls, micro, lastSet, access, dirty, mem, instances, disk, cfg, refs,
                   steps, host>>

PathSet(key, value) == PathCall("set", key, value, SetDeep(heap, data, key, value, FALSE))
PathSetDefault(key, value) ==
    PathCall("setDefault", key, value, SetDefaultDeep(heap, data, key, value, FALSE))
PathPop(key, value) == PathCall("pop", key, value, PopDeep(heap, data, key, value, FALSE))

PathInit ==
    /\ LockInit
    /\ lockFile = NoLock
    /\ fileContent = Absent
    /\ fileMtime = 0
    /\ \E doc \in PathDocs :
          /\ heap = JsonParse(<<>>, doc).h
          /\ data = JsonParse(<<>>, doc).value
    /\ rawData = [proxied |-> TRUE, tree |-> EmptyTree]
    /\ lastModified = 0
    /\ batchMode = FALSE
    /\ queuedSave = FALSE
    /\ calls = [i \in CallIds |-> IdleTask]
    /\ micro = <<>>
    /\ ops = 0
    /\ lastSet = NoSet
    /\ access = NoAccess
    /\ dirty = FALSE
    /\ ConfigIdle

PathNext ==
    \/ \E k \in PathKeys, v \in StoreValues : PathSet(k, v)
    \/ \E k \in PathKeys, v \in StoreValues : PathSetDefault(k, v)
    \/ \E k \in PathKeys, v \in GetDefaults : PathPop(k, v)

PathSpec == PathInit /\ [][PathNext]_vars

\* the segments paths are made of, and the paths of up to three segments
Segments == {ThemeKey, SettingsKey, ListKey, XKey} \cup {NumeralOf(i) : i \in 0 .. 2}
SegmentLists ==
    {<<a>> : a \in Segments} \cup {<<a, b>> : a \in Segments, b \in Segments}
        \cup {<<a, b, c>> : a \in Segments, b \in Segments, c \in Segments}

IsPrefix(p, q) == Len(p) <= Len(q) /\ SubSeq(q, 1, Len(p)) = p
\* p is neither a prefix nor an extension of q
Apart(p, q) == ~IsPrefix(p, q) /\ ~IsPrefix(q, p)

\* every path that existed before the last call and lies apart from its
\* path holds the value it held
FrameKept ==
    \A p \in SegmentLists :
        (TreeGet(last.before, p) # Missing /\ Apart(p, Split(last.key)))
            => TreeGet(last.after, p) = TreeGet(last.before, p)

\* C31: after a set that succeeded, get returns the value, and every other
\* path that existed before and is neither a prefix nor an extension of the
\* path holds the value it held; entries a set added to a sequence are
\* among those paths for a later set
C31_SetEffectAndFrame ==
    (last.op = "set" /\ ~last.threw)
        => /\ ~GetDeep(heap, data, last.key).threw
           /\ GetDeep(heap, data, last.key).value = last.value
           /\ FrameKept


\* C32: setDefault returns the value present at the path and leaves the
\* document unchanged; when none is present, also at a sequence index at or
\* past the length, it stores the value there and returns it
C32_SetDefault ==
    (last.op = "setDefault" /\ ~last.threw)
        => LET present == TreeGet(last.before, Split(last.key))
           IN IF present # Missing
              THEN last.result = present /\ last.after = last.before
              ELSE last.result = last.value
                       /\ TreeGet(last.after, Split(last.key)) = last.value


\* a sequence without its element at index i (counted from 0)
RemoveAt(seq, i) == SubSeq(seq, 1, i) \o SubSeq(seq, i + 2, Len(seq))

\* what a parent container holds once the entry named key is removed
Without(container, key) ==
    IF container.t = "array"
    THEN IF TreeGet(container, <<key>>) = Missing THEN container
         ELSE [container EXCEPT !.v = RemoveAt(container.v, ParseInt(key))]
    ELSE [container EXCEPT !.m = Remove(container.m, key)]

\* C33: a pop that returns gives the value at the path, or the default when
\* there is none; afterwards the parent mapping lacks the key, or the parent
\* sequence lacks the element with the later ones moved down, and the
\* entries outside the parent container are unchanged
C33_Pop ==
    (last.op = "pop" /\ ~last.threw)
        => LET segs == Split(last.key)
               parent == Front(segs)
               present == TreeGet(last.before, segs)
           IN /\ last.result = (IF present # Missing THEN present ELSE last.value)
              /\ TreeGet(last.after, parent)
                     = Without(TreeGet(last.before, parent), Last(segs))
              /\ \A p \in SegmentLists :
                     (TreeGet(last.before, p) # Missing /\ Apart(p, parent))
                         => TreeGet(last.after, p) = TreeGet(last.before, p)


\* C34: the library's document holds at most one '@' reference record for
\* each set of targets, whatever upstream sets were made
C34_OneReferencePerTargetSet ==
    \A id \in ListIds :
        Cardinality(RecordsFor(DocOf(World, LibraryPath), TargetPaths(id))) <= 1


\* the flags of a list, as the Set the constructor makes of them
FlagSet(flags) == {flags[i] : i \in DOMAIN flags}

\* the last two calls build one raw key with the same flags in two orders
SameFlagSet ==
    /\ prev.op = "buildKey" /\ last.op = "buildKey"
    /\ prev.key = last.key
    /\ FlagSet(prev.flags) = FlagSet(last.flags)

\* C35: two Configs created with the same set of flags, given in different
\* orders, build the identical stored key from every raw key
C35_FlagOrder == SameFlagSet => last.result = prev.result

\* {b=2&a=1}tag built with [pluginOnly, folderOnly] and then with
\* [folderOnly, pluginOnly]
C35_Witness ==
    /\ SameFlagSet
    /\ prev.flags = <<"pluginOnly", "folderOnly">>
    /\ last.flags = <<"folderOnly", "pluginOnly">>
    /\ last.key = AttrTagKey
    /\ last.result = prev.result
    /\ NamesOf(last.result) = << <<"a">>, <<"b">>, <<"folderOnly">>, <<"pluginId">> >>


\* C36: during one lock acquisition, its restarts after a lost creation
\* race included, the acquirer deletes a sentinel at most once
C36_OneBreakPerAcquisition == \A p \in Procs : task[p].unlinks <= 1

\* C36 as amended: between two (re)starts of #acquireLock the acquirer
\* deletes a sentinel at most once
C36_OneBreakPerPass == \A p \in Procs : task[p].passUnlinks <= 1

\* an acquisition that lost the creation race after its first break has
\* broken a stale sentinel again
C36_Witness == \E p \in Procs : task[p].unlinks = 2 /\ task[p].passUnlinks = 1


\* the step removes the sentinel
Deletes == lockFile.exists /\ ~lockFile'.exists

\* C37: a release deletes only the sentinel the releasing process created,
\* and an acquisition deletes only a sentinel that is older than lockMaxAge
\* at the moment of the deletion
C37_DeletesOnlyOwnOrStale ==
    [][\A p \in Procs :
          /\ (Release(p) /\ Deletes) => lockFile.creator = Pid(p)
          /\ (Acquire(p) /\ Deletes) => IsStale(lockFile, clock)]_vars



\* the step is the continuation of save() after its lock acquisition
SaveCompletes == micro # <<>> /\ calls[Head(micro)].kind = "save" /\ micro' = Tail(micro)

\* the watcher's callback would call load() in this state
TickLoads(file, mtime, recorded) == file # Absent /\ mtime > recorded

\* C38: a watcher tick starts a load only when the file's modification time
\* is strictly greater than the recorded lastModified, and the state a
\* completed load or save leaves is one where a tick starts no load (it
\* stays so until a process writes the file: nothing else changes the
\* file's modification time, and the recorded time changes only when a
\* load or a save completes)
C38_NoNeedlessReload ==
    [][/\ (WatcherTick /\ Started # {}) => fileMtime > lastModified
       /\ (LoadCompletes \/ SaveCompletes) => ~TickLoads(fileContent', fileMtime', lastModified')]_vars



\* the save() of process p has written and recorded, and not yet released
Saved(p) == task[p].kind = "save" /\ task[p].pc = "release"

\* C39: when a save() has done its write and its statSync, the backing file
\* holds the serialization of the saving process's document and the
\* recorded lastModified is the modification time that write produced
C39_SaveWritesServedDocument ==
    \A p \in Procs :
        Saved(p) => /\ fileContent = Serialized(p)
                    /\ task[p].recorded = task[p].wrote



(***************************************************************************)
(* RebuildSpec: a Config with some flags builds the stored key of a raw    *)
(* key, and then the stored key of that result.  The base key may be the   *)
(* empty string.                                                           *)
(***************************************************************************)
RebuildKeys == {TagKey, <<>>}

\* this.#buildKey(this.#buildKey(key)) of a Config with the flags
RebuildCall(flags, pairs, base) ==
    /\ last' = [op |-> "rebuild", flags |-> flags, key |-> RawKey(pairs, base),
                result |-> BuildKey(NewConfig("item", flags), RawKey(pairs, base)),
                again |-> BuildKey(NewConfig("item", flags),
                                   BuildKey(NewConfig("item", flags), RawKey(pairs, base)))]
    /\ UNCHANGED <<mem, instances, disk, cfg, refs, steps, prev, host>>
    /\ UNCHANGED <<lockVars, fileVars, storeVars, obsVars>>

RebuildNext == \E flags \in FlagLists, pairs \in PairLists, base \in RebuildKeys :
                   RebuildCall(flags, pairs, base)

RebuildSpec == KeyInit /\ [][RebuildNext]_vars

\* C40: building the stored key again from a stored key gives the same
\* stored key
C40_BuildKeyIdempotent == last.op = "rebuild" => last.again = last.result

====
